---- MODULE Spec2Model ----
(***************************************************************************)
(* The consolidation pipeline of engramic's ConsolidateService            *)
(* (src/src/engramic/application/consolidate/consolidate_service.py).     *)
(*                                                                         *)
(* One slot per admitted observation.  A coroutine is modelled by two     *)
(* steps, split at its only suspension point (the await of the plugin     *)
(* call offloaded with asyncio.to_thread); handlers and done-callbacks    *)
(* run on the service's single scheduler and are one step each.           *)
(*                                                                         *)
(* Optional values (Python's None) are sequences of length <= 1:          *)
(* None is <<>> and a present value x is <<x>>.                           *)
(*                                                                         *)
(* The other components have their own variables and specifications:      *)
(* MetricsSpec (the service's MetricsTracker and on_acknowledge),         *)
(* BrokerSpec (BaseMessageService), ChromaSpec (the ChromaDB adapter) and *)
(* StreamSpec (Gemini.submit_streaming).  Each specification leaves the   *)
(* variables of the other components at their initial values.             *)
(***************************************************************************)
EXTENDS Naturals, Sequences, FiniteSets, TLC

\* ------------------------------------------------------------------ bounds

\* Number of OBSERVATION_COMPLETE messages the service handles in one run.
MaxObservations == 2
\* Longest index_text_array the language model plugin returns.
MaxIndexTexts == 2
\* How many vectors more than it was given strings the embedding plugin may return.
MaxExtraVectors == 1
\* Number of ACKNOWLEDGE messages the service handles in one run of MetricsSpec.
MaxAcknowledges == 2
\* Number of messages publishers push to the broker in one run of BrokerSpec.
MaxPushed == 3
\* Number of rows in a collection that a ChromaDB query ranks.
MaxRows == 2
\* Largest n_results a caller of ChromaDB.query asks for.
MaxNResults == 2
\* Most chunks in one streamed model response.
MaxChunks == 3
\* Number of submit_streaming calls in one run of StreamSpec.
MaxStreamCalls == 2
\* Number of ChromaDB adapter instances constructed in one process.
MaxAdapters == 2
\* Number of threads that call query or insert on the adapters.
MaxCallers == 3
\* Number of those threads that make calls in the runs of ChromaSpec.
MaxQueryCallers == 2
\* The scores of an engram and the two filters of a merge range over 0..MaxScore.
MaxScore == 2
\* Longest engram_list of an observation passed to merge_observation.
MaxMergeEngrams == 2

\* ------------------------------------------------------------ optional values

None == <<>>

Some(x) == <<x>>

IsNone(x) == x = <<>>

Val(x) == x[1]

Min(a, b) == IF a <= b THEN a ELSE b

Range(seq) == {seq[i] : i \in DOMAIN seq}

\* ------------------------------------------------------------------ inputs

\* Engram (engramic.core.Engram): id, content, context (a key -> value map, kept
\* as the ordered list of its items, or None), indices (None until enriched).
Engram(id, content, context) ==
    [id |-> id, content |-> content, context |-> context, indices |-> None]

E1 == Engram("e1", "c1", Some(<<<<"header", "Intro">>, <<"section", "null">>, <<"page", "2">>>>))

E2 == Engram("e2", "c2", Some(<<<<"title", "null">>>>))

E3 == Engram("e3", "c3", Some(<<<<"header", "Intro">>>>))

E4 == Engram("e4", "c4", None)

\* Index (engramic.core.Index): a text and its embedding (None until computed).
Index(text, embedding) == [text |-> text, embedding |-> embedding]

\* Observation: source_id, meta (only summary_full is read here), engram_list.
Observation(source_id, summary_full, engram_list) ==
    [source_id |-> source_id,
     meta |-> [summary_full |-> summary_full],
     engram_list |-> engram_list]

\* The observations a publisher may send on OBSERVATION_COMPLETE.
ObservationInputs ==
    { Observation("s1", None, <<E1, E2>>),
      Observation("s2", Some(Index("summary two", None)), <<E1>>),
      Observation("s3", None, <<E2, E2>>),
      Observation("s4", None, <<>>),
      Observation("s5", None, <<E4>>),
      Observation("s6", None, <<E3>>) }

\* The index texts the language model may produce, in its declared order.
IndexTexts == <<"a1", "a2", "a3">>

\* Embedding vector number j of one plugin reply.
Vector(j) == <<j, 2>>

\* The replies of embedding.gen_embed to n strings: any number of vectors from
\* none to n + MaxExtraVectors (the adapter's reply is not validated by the
\* service), or a raised exception.
EmbeddingReplies(n) ==
    { [raised |-> FALSE, embeddings_list |-> [j \in 1..k |-> Vector(j)]] :
        k \in 0..(n + MaxExtraVectors) }
    \cup { [raised |-> TRUE, embeddings_list |-> <<>>] }

\* The replies of llm.submit: a JSON object with index_text_array of 0 to
\* MaxIndexTexts texts, or a raised exception.
LlmReplies ==
    { [raised |-> FALSE, index_text_array |-> SubSeq(IndexTexts, 1, k)] :
        k \in 0..MaxIndexTexts }
    \cup { [raised |-> TRUE, index_text_array |-> <<>>] }

\* ------------------------------------------------------------------- state

VARIABLES
    observations,    \* the admitted observations, one per slot, in admission order
    summary_task,    \* per slot: the _generate_summary_embeddings coroutine
    engram_task,     \* per slot: the engram branch (_generate_engrams and the joins)
    index_tasks,     \* per slot: the _gen_indices coroutines, in submission order
    embed_tasks,     \* per slot: the _gen_embeddings coroutines, in submission order
    engram_builder,  \* ConsolidateService.engram_builder: id -> Engram
    sent             \* per slot: the messages send_message_async published for it

consolidate_vars == <<observations, summary_task, engram_task, index_tasks, embed_tasks,
                      engram_builder, sent>>

VARIABLES
    metrics,         \* ConsolidateService.metrics_tracker: metric -> counter
    incremented,     \* per metric, the sum of all increments so far
    acknowledged,    \* number of ACKNOWLEDGE messages handled
    status_sent,     \* the STATUS messages published, in order
    calls_counted    \* number of increment calls made so far

metrics_vars == <<metrics, incremented, acknowledged, status_sent, calls_counted>>

VARIABLES
    broker_pc,              \* BaseMessageService: new, failed (init_async raised),
                            \* scheduled (the loop not yet started), test (at the
                            \* while test), recv (awaiting recv_multipart), delivered
                            \* (a message handed to the waiting loop), send (a
                            \* message in hand), exited, crashed, cancelled
    broker_error,           \* the message of the OSError init_async raised
    pull_socket,            \* none, bound, failed (bind raised ZMQError) or closed
    pub_socket,             \* none, bound, failed or closed
    pull_pushed,            \* every message publishers pushed to the pull endpoint
    pull_queue,             \* the pushed messages the loop has not yet resumed with
    pub_sent,               \* the messages sent on the pub socket, in order
    broker_metrics,         \* BaseMessageService.metrics_tracker
    recieved_stop_message,  \* Service.recieved_stop_message
    pushed_at_stop          \* how many messages had been pushed when the flag was set

broker_vars == <<broker_pc, broker_error, pull_socket, pub_socket, pull_pushed,
                 pull_queue, pub_sent, broker_metrics, recieved_stop_message,
                 pushed_at_stop>>

VARIABLES
    local_storage_root_path,   \* per ChromaDB instance: os.getenv('LOCAL_STORAGE_ROOT_PATH')
                               \* at its construction
    chroma_dirs,               \* the directories os.makedirs was asked for
    chroma_client_path,        \* per instance: the path PersistentClient was opened with
    multi_process_lock,        \* per instance: its lock, None or the thread holding it
    callers                    \* per thread: where it is in a query or insert call, the
                               \* instance whose lock it waits for or holds, the args
                               \* of the call, the rows the collection held at line
                               \* 52 and the outcome of the call

chroma_vars == <<local_storage_root_path, chroma_dirs, chroma_client_path,
                 multi_process_lock, callers>>

VARIABLES
    stream_pc,        \* Gemini.submit_streaming: idle, streaming, returned or raised
    stream_chunks,    \* the chunks of the model's response to the current call
    stream_packets,   \* the packets the current call sent to websocket_manager
    full_response,    \* the text collected by the current call
    stream_calls      \* number of submit_streaming calls made

stream_vars == <<stream_pc, stream_chunks, stream_packets, full_response, stream_calls>>

VARIABLES
    service_stopped   \* ConsolidateService: stop() has completed

lifecycle_vars == <<service_stopped>>

VARIABLES
    merge_pc,             \* merge_observation: "idle", "called", "returned" or "raised"
    merge_args,           \* None or the arguments of the call
    merged_observation,   \* None or the observation the call returned
    merge_error,          \* the exception the call raised, "" if none
    uuid_issued           \* how many ids uuid.uuid4 has handed out

merge_vars == <<merge_pc, merge_args, merged_observation, merge_error, uuid_issued>>

vars == <<consolidate_vars, metrics_vars, broker_vars, chroma_vars, stream_vars,
          lifecycle_vars, merge_vars>>

Slots == DOMAIN observations

\* A coroutine: pc is ready (scheduled), calling (suspended in the plugin call),
\* done or failed; reply is what the plugin returned; result what it returned.
\* arg holds the arguments it was created with.
Task(arg) == [pc |-> "ready", arg |-> arg, reply |-> None, result |-> None, error |-> ""]

Failed(task, reply, error) ==
    [task EXCEPT !.pc = "failed", !.reply = reply, !.error = error]

Finished(task) == task.pc \in {"done", "failed"}

\* Service.send_message_async: publish msg (recorded with the slot it is for).
Send(s, msgs) == sent' = [sent EXCEPT ![s] = sent[s] \o msgs]

\* ConsolidateMetric (lines 26-31).
ConsolidateMetric ==
    {"observations_recieved", "summaries_generated", "engrams_generated",
     "indices_generated", "embeddings_generated"}

\* A MetricsTracker with every counter at zero.
NoMetrics == [metric \in ConsolidateMetric |-> 0]

\* Line 85: a new MetricsTracker; nothing acknowledged or published yet.
MetricsInit ==
    /\ metrics = NoMetrics
    /\ incremented = NoMetrics
    /\ acknowledged = 0
    /\ status_sent = <<>>
    /\ calls_counted = 0

\* MessageMetric (lines 16-18).
MessageMetric == {"message_recieved", "message_sent"}

\* BaseMessageService.__init__ (lines 22-24): nothing bound, nothing running.
BrokerInit ==
    /\ broker_pc = "new"
    /\ broker_error = ""
    /\ pull_socket = "none"
    /\ pub_socket = "none"
    /\ pull_pushed = <<>>
    /\ pull_queue = <<>>
    /\ pub_sent = <<>>
    /\ broker_metrics = [metric \in MessageMetric |-> 0]
    /\ recieved_stop_message = FALSE
    /\ pushed_at_stop = None

\* A thread that is not in a call of an adapter and has made none.
Idle == [pc |-> "idle", adapter |-> 0, op |-> "", args |-> None, ranking |-> None,
         outcome |-> None]

\* No ChromaDB instance has been constructed and no thread is in a call.
ChromaInit ==
    /\ local_storage_root_path = <<>>
    /\ chroma_dirs = {}
    /\ chroma_client_path = <<>>
    /\ multi_process_lock = <<>>
    /\ callers = [t \in 1..MaxCallers |-> Idle]

\* The service has been constructed and started, not stopped.
LifecycleInit == service_stopped = FALSE

\* merge_observation has not been called.
MergeInit ==
    /\ merge_pc = "idle"
    /\ merge_args = None
    /\ merged_observation = None
    /\ merge_error = ""
    /\ uuid_issued = 0

\* No submit_streaming call has been made.
StreamInit ==
    /\ stream_pc = "idle"
    /\ stream_chunks = <<>>
    /\ stream_packets = <<>>
    /\ full_response = ""
    /\ stream_calls = 0

Init ==
    /\ observations = <<>>
    /\ summary_task = <<>>
    /\ engram_task = <<>>
    /\ index_tasks = <<>>
    /\ embed_tasks = <<>>
    /\ engram_builder = <<>>
    /\ sent = <<>>
    /\ MetricsInit
    /\ BrokerInit
    /\ ChromaInit
    /\ StreamInit
    /\ LifecycleInit
    /\ MergeInit

\* ---------------------------------------------------------- MetricsTracker

\* MetricsTracker.increment(metric, amount): add amount to the counter.
increment(counters, metric, amount) ==
    [counters EXCEPT ![metric] = @ + amount]

\* One self.metrics_tracker.increment(metric, amount) call of the service
\* (lines 102, 139, 203, 245), with the running totals kept beside it.
Count(metric, amount) ==
    /\ metrics' = increment(metrics, metric, amount)
    /\ incremented' = increment(incremented, metric, amount)
    /\ calls_counted' = calls_counted + 1
    /\ UNCHANGED <<acknowledged, status_sent>>

\* --------------------------------------------------- on_observation_complete

\* ConsolidateService.on_observation_complete (lines 95-107): load the
\* observation, count it, start the summary-embedding task and the engram task.
on_observation_complete(observation) ==
    /\ Len(observations) < MaxObservations
    /\ Count("observations_recieved", 1)
    /\ observations' = Append(observations, observation)
    /\ summary_task' = Append(summary_task, Task(None))
    /\ engram_task' = Append(engram_task, Task(None))
    /\ index_tasks' = Append(index_tasks, <<>>)
    /\ embed_tasks' = Append(embed_tasks, <<>>)
    /\ sent' = Append(sent, <<>>)
    /\ UNCHANGED engram_builder

\* ---------------------------------------------- _generate_summary_embeddings

\* Mutant of SummaryEmbedding: the last vector of the reply instead of the first.
SummaryEmbedding_last(embedding_list) == embedding_list[Len(embedding_list)]

\* Lines 127-128: the embedding attached to summary_full.
SummaryEmbedding(embedding_list) == embedding_list[1]

\* Lines 113-123: raise ValueError when summary_full is None, else submit
\* gen_embed([summary_full.text]) to a worker thread and suspend.
generate_summary_embeddings_call(s) ==
    /\ summary_task[s].pc = "ready"
    /\ IF IsNone(observations[s].meta.summary_full)
       THEN summary_task' = [summary_task EXCEPT
                ![s] = Failed(@, None, "Summary full is none.")]
       ELSE summary_task' = [summary_task EXCEPT ![s] = [@ EXCEPT !.pc = "calling",
                !.arg = Some([strings |-> <<Val(observations[s].meta.summary_full).text>>])]]
    /\ UNCHANGED metrics_vars
    /\ UNCHANGED <<observations, engram_task, index_tasks, embed_tasks,
                   engram_builder, sent>>

\* Lines 119-130: the plugin call returns (or raises); embedding_list[0] raises
\* IndexError on an empty list; otherwise the vector is attached and
\* META_COMPLETE is published with asdict(observation.meta).
generate_summary_embeddings_resume(s) ==
    /\ summary_task[s].pc = "calling"
    /\ \E reply \in EmbeddingReplies(1) :
        IF reply.raised \/ reply.embeddings_list = <<>>
        THEN /\ summary_task' = [summary_task EXCEPT
                    ![s] = Failed(@, Some(reply), IF reply.raised THEN "plugin error"
                                                  ELSE "IndexError")]
             /\ UNCHANGED <<observations, sent>>
        ELSE LET summary_full == [Val(observations[s].meta.summary_full) EXCEPT
                     !.embedding = Some(SummaryEmbedding(reply.embeddings_list))]
                 meta == [observations[s].meta EXCEPT !.summary_full = Some(summary_full)]
             IN /\ observations' = [observations EXCEPT ![s] = [@ EXCEPT !.meta = meta]]
                /\ summary_task' = [summary_task EXCEPT
                       ![s] = [@ EXCEPT !.pc = "done", !.reply = Some(reply)]]
                /\ Send(s, <<[topic |-> "META_COMPLETE", meta |-> meta]>>)
    /\ UNCHANGED metrics_vars
    /\ UNCHANGED <<engram_task, index_tasks, embed_tasks, engram_builder>>

\* ------------------------------------------------------- _generate_engrams

\* Lines 138-141: the coroutine counts the engrams of the observation and
\* returns the observation; its done-callback on_engrams is then due.
generate_engrams(s) ==
    /\ engram_task[s].pc = "ready"
    /\ Count("engrams_generated", Len(observations[s].engram_list))
    /\ engram_task' = [engram_task EXCEPT ![s] = [@ EXCEPT !.pc = "generated"]]
    /\ UNCHANGED <<observations, summary_task, index_tasks, embed_tasks,
                   engram_builder, sent>>

\* ------------------------------------------------------------- on_engrams

\* Mutant of RegisterEngrams: an id that is already a key is overwritten.
RegisterEngrams_overwrite(engram_list, builder) ==
    [builder |-> [k \in DOMAIN builder \cup {engram_list[i].id : i \in DOMAIN engram_list} |->
                    IF \E i \in DOMAIN engram_list : engram_list[i].id = k
                    THEN (CHOOSE e \in Range(engram_list) : e.id = k)
                    ELSE builder[k]],
     collision |-> FALSE]

\* Lines 152-158: register the engrams one by one; the first id that is already
\* a key raises, and the engrams registered before it stay in the map.
RECURSIVE RegisterEngrams(_, _)
RegisterEngrams(engram_list, builder) ==
    IF engram_list = <<>>
    THEN [builder |-> builder, collision |-> FALSE]
    ELSE LET engram == Head(engram_list)
         IN IF engram.id \in DOMAIN builder
            THEN [builder |-> builder, collision |-> TRUE]
            ELSE RegisterEngrams(Tail(engram_list),
                    [k \in DOMAIN builder \cup {engram.id} |->
                        IF k = engram.id THEN engram ELSE builder[k]])

\* Lines 143-165: the done-callback of _generate_engrams publishes
\* ENGRAM_CREATED, registers the engrams and submits one
\* _gen_indices(i, engram.id, source_id, engram) per engram to run_tasks.
on_engrams(s) ==
    /\ engram_task[s].pc = "generated"
    /\ LET observation == observations[s]
           engram_list == observation.engram_list
           source_id == observation.source_id
           engram_ids == [i \in DOMAIN engram_list |-> engram_list[i].id]
           registered == RegisterEngrams(engram_list, engram_builder)
       IN /\ Send(s, <<[topic |-> "ENGRAM_CREATED", source_id |-> source_id,
                        engram_id_array |-> engram_ids]>>)
          /\ engram_builder' = registered.builder
          /\ IF registered.collision
             THEN /\ engram_task' = [engram_task EXCEPT
                         ![s] = Failed(@, None, "Engram ID Collision")]
                  /\ UNCHANGED index_tasks
             ELSE /\ engram_task' = [engram_task EXCEPT ![s] = [@ EXCEPT !.pc = "indexing"]]
                  /\ index_tasks' = [index_tasks EXCEPT ![s] =
                         [i \in DOMAIN engram_list |->
                            Task(Some([index |-> i - 1, id_in |-> engram_list[i].id,
                                       source_id |-> source_id,
                                       engram |-> engram_list[i]]))]]
    /\ UNCHANGED metrics_vars
    /\ UNCHANGED <<observations, summary_task, embed_tasks>>

\* ------------------------------------------------------------ _gen_indices

\* Mutant of ContextItems: items whose value is 'null' are written too.
RECURSIVE ContextItems_with_null(_)
ContextItems_with_null(items) ==
    IF items = <<>> THEN ""
    ELSE Head(items)[1] \o ": " \o Head(items)[2] \o "\n"
         \o ContextItems_with_null(Tail(items))

\* Lines 187-195: 'Context: ' followed by 'key: value\n' for every item of the
\* context map whose value is not 'null'.
RECURSIVE ContextItems(_)
ContextItems(items) ==
    IF items = <<>> THEN ""
    ELSE LET item == Head(items)[1]
             key == Head(items)[2]
         IN (IF key # "null" THEN item \o ": " \o key \o "\n" ELSE "")
            \o ContextItems(Tail(items))

ContextString(context) == "Context: " \o ContextItems(context)

\* Lines 197-199: the context is put in front of each index text.
PrefixedIndexTexts(context, index_text_array) ==
    [j \in DOMAIN index_text_array |->
        ContextString(context) \o " Content: " \o index_text_array[j]]

\* Lines 167-181: build the prompt and submit it to the language model plugin
\* in a worker thread; suspend.
gen_indices_call(s, i) ==
    /\ i \in DOMAIN index_tasks[s]
    /\ index_tasks[s][i].pc = "ready"
    /\ index_tasks' = [index_tasks EXCEPT ![s][i] = [@ EXCEPT !.pc = "calling"]]
    /\ UNCHANGED metrics_vars
    /\ UNCHANGED <<observations, summary_task, engram_task, embed_tasks,
                   engram_builder, sent>>

\* Mutant of gen_indices_return: an empty index_text_array is returned like any other.
gen_indices_return_unchecked(task, reply) ==
    LET arg == Val(task.arg)
    IN IF reply.raised \/ IsNone(arg.engram.context)
       THEN Failed(task, Some(reply), "raised")
       ELSE [task EXCEPT !.pc = "done", !.reply = Some(reply),
                !.result = Some([id |-> arg.id_in, source_id |-> arg.source_id,
                                 indices |-> PrefixedIndexTexts(Val(arg.engram.context),
                                                                reply.index_text_array)])]

\* Mutant of gen_indices_return: after a plugin error the call is made again.
gen_indices_return_retry(task, reply) ==
    LET arg == Val(task.arg)
        engram == arg.engram
    IN IF reply.raised
       THEN [task EXCEPT !.pc = "ready", !.reply = Some(reply)]
       ELSE IF IsNone(engram.context)
       THEN Failed(task, Some(reply), "None context found in engram.")
       ELSE LET indices == PrefixedIndexTexts(Val(engram.context), reply.index_text_array)
            IN IF Len(indices) = 0
               THEN Failed(task, Some(reply), "An empty index was created.")
               ELSE [task EXCEPT !.pc = "done", !.reply = Some(reply),
                        !.result = Some([id |-> arg.id_in, source_id |-> arg.source_id,
                                         indices |-> indices])]

\* Mutant of gen_indices_return: a None context is taken for an empty one.
gen_indices_return_none_context(task, reply) ==
    LET arg == Val(task.arg)
        context == IF IsNone(arg.engram.context) THEN <<>> ELSE Val(arg.engram.context)
        indices == PrefixedIndexTexts(context, reply.index_text_array)
    IN IF reply.raised
       THEN Failed(task, Some(reply), "plugin error")
       ELSE IF Len(indices) = 0
       THEN Failed(task, Some(reply), "An empty index was created.")
       ELSE [task EXCEPT !.pc = "done", !.reply = Some(reply),
                !.result = Some([id |-> arg.id_in, source_id |-> arg.source_id,
                                 indices |-> indices])]

\* Lines 183-209: parse the reply; raise on a None context; prefix the texts; raise
\* when no index text was produced; else return {id, source_id, indices}.
gen_indices_return(task, reply) ==
    LET arg == Val(task.arg)
        engram == arg.engram
    IN IF reply.raised
       THEN Failed(task, Some(reply), "plugin error")
       ELSE IF IsNone(engram.context)
       THEN Failed(task, Some(reply), "None context found in engram.")
       ELSE LET indices == PrefixedIndexTexts(Val(engram.context), reply.index_text_array)
            IN IF Len(indices) = 0
               THEN Failed(task, Some(reply), "An empty index was created.")
               ELSE [task EXCEPT !.pc = "done", !.reply = Some(reply),
                        !.result = Some([id |-> arg.id_in, source_id |-> arg.source_id,
                                         indices |-> indices])]

\* The list the plugin manager hands back for one plugin call: the reply of
\* the one plugin registered for it (indices[0], embedding_list_ret[0]).
ReplyList(reply) == <<reply>>

\* Lines 175-209: the plugin call returns and the coroutine runs to its end;
\* unless the call raised or the context is None it counts len(indices), the
\* length of the reply list, on line 203, before the empty-index test.
gen_indices_resume(s, i) ==
    /\ i \in DOMAIN index_tasks[s]
    /\ index_tasks[s][i].pc = "calling"
    /\ \E reply \in LlmReplies :
        /\ index_tasks' = [index_tasks EXCEPT ![s][i] = gen_indices_return(@, reply)]
        /\ IF reply.raised \/ IsNone(Val(index_tasks[s][i].arg).engram.context)
           THEN UNCHANGED metrics_vars
           ELSE Count("indices_generated", Len(ReplyList(reply)))
    /\ UNCHANGED <<observations, summary_task, engram_task, embed_tasks,
                   engram_builder, sent>>

\* --------------------------------------------------------------- run_tasks

\* Service.run_tasks: the join completes once every task has completed.
JoinComplete(tasks) == \A i \in DOMAIN tasks : Finished(tasks[i])

\* The join fails when a task raised: Future.result() re-raises in the callback.
JoinRaised(tasks) == \E i \in DOMAIN tasks : tasks[i].pc = "failed"

\* The list of results under the group key, in task-submission order.
JoinResults(tasks) == [i \in DOMAIN tasks |-> Val(tasks[i].result)]

\* What the join of no task at all holds: no group key, or an empty list.
EmptyJoinOutcomes == {"no group key", "empty group list"}

\* ---------------------------------------------------------- on_indices_done

\* Mutant of on_indices_done: the join's exception is not re-raised, and an
\* embedding task is submitted for every index task that returned.
on_indices_done_ignore_raised(s) ==
    /\ engram_task[s].pc = "indexing"
    /\ JoinComplete(index_tasks[s])
    /\ LET returned == SelectSeq(index_tasks[s], LAMBDA task : task.pc = "done")
           index_sets == JoinResults(returned)
       IN /\ engram_task' = [engram_task EXCEPT ![s] = [@ EXCEPT !.pc = "embedding"]]
          /\ embed_tasks' = [embed_tasks EXCEPT ![s] =
                 [i \in DOMAIN index_sets |->
                    Task(Some([id_and_index_dict |-> index_sets[i],
                               process_index |-> i - 1]))]]
    /\ UNCHANGED metrics_vars
    /\ UNCHANGED <<observations, summary_task, index_tasks, engram_builder, sent>>

\* Lines 212-228: read the joined index sets and submit one
\* _gen_embeddings(index_set, i) per index set to run_tasks.
on_indices_done(s) ==
    /\ engram_task[s].pc = "indexing"
    /\ JoinComplete(index_tasks[s])
    /\ IF JoinRaised(index_tasks[s])
       THEN /\ engram_task' = [engram_task EXCEPT
                   ![s] = Failed(@, None, "index task raised")]
            /\ UNCHANGED embed_tasks
       ELSE \E outcome \in IF index_tasks[s] = <<>> THEN EmptyJoinOutcomes
                           ELSE {"group list"} :
            IF outcome = "no group key"
            THEN /\ engram_task' = [engram_task EXCEPT ![s] = Failed(@, None, "KeyError")]
                 /\ UNCHANGED embed_tasks
            ELSE LET index_sets == JoinResults(index_tasks[s])
                 IN /\ engram_task' = [engram_task EXCEPT
                           ![s] = [@ EXCEPT !.pc = "embedding"]]
                    /\ embed_tasks' = [embed_tasks EXCEPT ![s] =
                           [i \in DOMAIN index_sets |->
                              Task(Some([id_and_index_dict |-> index_sets[i],
                                         process_index |-> i - 1]))]]
    /\ UNCHANGED metrics_vars
    /\ UNCHANGED <<observations, summary_task, index_tasks, engram_builder, sent>>

\* ---------------------------------------------------------- _gen_embeddings

\* Lines 247-257: one Index per vector; indices[i] raises IndexError once the
\* vectors outnumber the texts, which the except clause only logs, so the
\* Index objects built so far are kept.
BuildIndexArray(indices, embedding_list) ==
    [j \in 1..Min(Len(indices), Len(embedding_list)) |->
        Index(indices[j], Some(embedding_list[j]))]

\* Index.id is a fresh identifier; the j-th index of an engram is named here.
IndexId(engram_id, j) == engram_id \o "#" \o ToString(j)

\* Mutant of IndexMessages: INDEX_COMPLETE is published before INDEX_CREATED.
IndexMessages_complete_first(source_id, engram_id, index_array) ==
    <<[topic |-> "INDEX_COMPLETE", index |-> index_array,
       engram_id |-> engram_id, source_id |-> source_id],
      [topic |-> "INDEX_CREATED", source_id |-> source_id,
       index_id_array |-> [j \in DOMAIN index_array |-> IndexId(engram_id, j)]]>>

\* Lines 259-268: INDEX_CREATED with the ids of the Index objects, then
\* INDEX_COMPLETE with the serialized Index objects.
IndexMessages(source_id, engram_id, index_array) ==
    <<[topic |-> "INDEX_CREATED", source_id |-> source_id,
       index_id_array |-> [j \in DOMAIN index_array |-> IndexId(engram_id, j)]],
      [topic |-> "INDEX_COMPLETE", index |-> index_array,
       engram_id |-> engram_id, source_id |-> source_id]>>

\* Lines 230-239: submit gen_embed(strings=indices) to a worker thread; suspend.
gen_embeddings_call(s, i) ==
    /\ i \in DOMAIN embed_tasks[s]
    /\ embed_tasks[s][i].pc = "ready"
    /\ embed_tasks' = [embed_tasks EXCEPT ![s][i] = [@ EXCEPT !.pc = "calling"]]
    /\ UNCHANGED metrics_vars
    /\ UNCHANGED <<observations, summary_task, engram_task, index_tasks,
                   engram_builder, sent>>

\* Lines 241-271: count the vectors, build the Index objects, publish INDEX_CREATED, attach the
\* indices to the engram in engram_builder, publish INDEX_COMPLETE and return
\* {engram_id, source_id}.
gen_embeddings_resume(s, i) ==
    /\ i \in DOMAIN embed_tasks[s]
    /\ embed_tasks[s][i].pc = "calling"
    /\ LET id_and_index_dict == Val(embed_tasks[s][i].arg).id_and_index_dict
           indices == id_and_index_dict.indices
           engram_id == id_and_index_dict.id
           source_id == id_and_index_dict.source_id
       IN \E reply \in EmbeddingReplies(Len(indices)) :
            IF reply.raised
            THEN /\ embed_tasks' = [embed_tasks EXCEPT
                        ![s][i] = Failed(@, Some(reply), "plugin error")]
                 /\ UNCHANGED <<engram_builder, sent>>
                 /\ UNCHANGED metrics_vars
            ELSE LET index_array == BuildIndexArray(indices, reply.embeddings_list)
                 IN /\ Count("embeddings_generated", Len(reply.embeddings_list))
                    /\ engram_builder' = [engram_builder EXCEPT
                           ![engram_id] = [@ EXCEPT !.indices = Some(index_array)]]
                    /\ Send(s, IndexMessages(source_id, engram_id, index_array))
                    /\ embed_tasks' = [embed_tasks EXCEPT ![s][i] =
                           [@ EXCEPT !.pc = "done", !.reply = Some(reply),
                              !.result = Some([engram_id |-> engram_id,
                                               source_id |-> source_id])]]
    /\ UNCHANGED <<observations, summary_task, engram_task, index_tasks>>

\* ------------------------------------------------------- on_embeddings_done

\* Mutant of EngramArray: the last engram of the join result is left out.
EngramArray_without_last(ret_dict, builder) ==
    [i \in 1..(Len(ret_dict) - 1) |-> builder[ret_dict[i].engram_id]]

\* Mutant of EngramArray: the engrams are listed last to first.
EngramArray_reversed(ret_dict, builder) ==
    [i \in DOMAIN ret_dict |-> builder[ret_dict[Len(ret_dict) + 1 - i].engram_id]]

\* Mutant of EngramArray: the published engrams have lost their context.
EngramArray_without_context(ret_dict, builder) ==
    [i \in DOMAIN ret_dict |-> [builder[ret_dict[i].engram_id] EXCEPT !.context = None]]

\* Mutant of EngramArray: every engram of engram_builder is published.
EngramArray_whole_builder(ret_dict, builder) ==
    LET ids == CHOOSE seq \in [1..Cardinality(DOMAIN builder) -> DOMAIN builder] :
                   Range(seq) = DOMAIN builder
    IN [i \in DOMAIN ids |-> builder[ids[i]]]

\* Line 282: the engrams named by the join result, in its order.
EngramArray(ret_dict, builder) ==
    [i \in DOMAIN ret_dict |-> builder[ret_dict[i].engram_id]]

\* Mutant of DeleteEngrams: the whole map is cleared.
DeleteEngrams_whole_builder(ret_dict, builder) == <<>>

\* Mutant of DeleteEngrams: the first engram of the join result is kept.
DeleteEngrams_without_first(ret_dict, builder) ==
    [k \in DOMAIN builder \ {ret_dict[i].engram_id : i \in 2..Len(ret_dict)} |->
        builder[k]]

\* Lines 289-290: delete the engrams named by the join result.
DeleteEngrams(ret_dict, builder) ==
    [k \in DOMAIN builder \ {ret_dict[i].engram_id : i \in DOMAIN ret_dict} |->
        builder[k]]

\* Mutant of on_embeddings_done: the join of no task at all is taken as success
\* and ENGRAM_COMPLETE is published with an empty engram_array.
on_embeddings_done_empty_join(s) ==
    /\ engram_task[s].pc = "embedding"
    /\ JoinComplete(embed_tasks[s])
    /\ IF JoinRaised(embed_tasks[s])
       THEN /\ engram_task' = [engram_task EXCEPT
                   ![s] = Failed(@, None, "embedding task raised")]
            /\ UNCHANGED <<engram_builder, sent>>
       ELSE LET ret_dict == JoinResults(embed_tasks[s])
                engram_dict == EngramArray(ret_dict, engram_builder)
            IN /\ Send(s, <<[topic |-> "ENGRAM_COMPLETE", engram_array |-> engram_dict,
                             source_id |-> observations[s].source_id]>>)
               /\ engram_builder' = DeleteEngrams(ret_dict, engram_builder)
               /\ engram_task' = [engram_task EXCEPT ![s] = [@ EXCEPT !.pc = "complete"]]
    /\ UNCHANGED metrics_vars
    /\ UNCHANGED <<observations, summary_task, index_tasks, embed_tasks>>

\* Mutant of on_embeddings_done: it waits for the summary branch to be done.
on_embeddings_done_after_meta(s) ==
    /\ summary_task[s].pc = "done"
    /\ engram_task[s].pc = "embedding"
    /\ JoinComplete(embed_tasks[s])
    /\ IF JoinRaised(embed_tasks[s])
       THEN /\ engram_task' = [engram_task EXCEPT
                   ![s] = Failed(@, None, "embedding task raised")]
            /\ UNCHANGED <<engram_builder, sent>>
       ELSE IF embed_tasks[s] = <<>>
       THEN \E outcome \in EmptyJoinOutcomes :
            /\ engram_task' = [engram_task EXCEPT ![s] =
                   Failed(@, None, IF outcome = "no group key" THEN "KeyError"
                                   ELSE "IndexError")]
            /\ UNCHANGED <<engram_builder, sent>>
       ELSE LET ret_dict == JoinResults(embed_tasks[s])
                source_id == ret_dict[1].source_id
                engram_dict == EngramArray(ret_dict, engram_builder)
            IN /\ Send(s, <<[topic |-> "ENGRAM_COMPLETE", engram_array |-> engram_dict,
                             source_id |-> source_id]>>)
               /\ engram_builder' = DeleteEngrams(ret_dict, engram_builder)
               /\ engram_task' = [engram_task EXCEPT ![s] = [@ EXCEPT !.pc = "complete"]]
    /\ UNCHANGED metrics_vars
    /\ UNCHANGED <<observations, summary_task, index_tasks, embed_tasks>>

\* Lines 274-290: read the joined results, publish ENGRAM_COMPLETE with the
\* engrams of engram_builder they name, then delete those engrams.
on_embeddings_done(s) ==
    /\ engram_task[s].pc = "embedding"
    /\ JoinComplete(embed_tasks[s])
    /\ IF JoinRaised(embed_tasks[s])
       THEN /\ engram_task' = [engram_task EXCEPT
                   ![s] = Failed(@, None, "embedding task raised")]
            /\ UNCHANGED <<engram_builder, sent>>
       ELSE IF embed_tasks[s] = <<>>
       THEN \E outcome \in EmptyJoinOutcomes :
            /\ engram_task' = [engram_task EXCEPT ![s] =
                   Failed(@, None, IF outcome = "no group key" THEN "KeyError"
                                   ELSE "IndexError")]
            /\ UNCHANGED <<engram_builder, sent>>
       ELSE LET ret_dict == JoinResults(embed_tasks[s])
                source_id == ret_dict[1].source_id
                engram_dict == EngramArray(ret_dict, engram_builder)
            IN /\ Send(s, <<[topic |-> "ENGRAM_COMPLETE", engram_array |-> engram_dict,
                             source_id |-> source_id]>>)
               /\ engram_builder' = DeleteEngrams(ret_dict, engram_builder)
               /\ engram_task' = [engram_task EXCEPT ![s] = [@ EXCEPT !.pc = "complete"]]
    /\ UNCHANGED metrics_vars
    /\ UNCHANGED <<observations, summary_task, index_tasks, embed_tasks>>

\* ----------------------------------------------------------- mock recorder

\* What host.mock_update_args and host.update_mock_data are given to name a
\* plugin call: the plugin, a call index and the source_id (lines 122, 125,
\* 179, 201, 238, 241).
MockKey(plugin, call_index, source_id) == <<plugin, call_index, source_id>>

\* The task has made its plugin call (it is suspended in it or got its reply).
Called(task) == task.pc = "calling" \/ ~IsNone(task.reply)

\* The plugin calls made so far for the observation of slot s, each with the
\* key it was given: the summary call with embedding_gen_embed and index 0,
\* the call of _gen_indices with llm_gen_indices and its index, the call of
\* _gen_embeddings with embedding_gen_embed and its process_index.
PluginCalls(s) ==
    LET source_id == observations[s].source_id
    IN (IF Called(summary_task[s])
        THEN { [call |-> <<"_generate_summary_embeddings", 0>>,
                key |-> MockKey("embedding_gen_embed", 0, source_id)] }
        ELSE {})
       \cup { [call |-> <<"_gen_indices", i>>,
               key |-> MockKey("llm_gen_indices", Val(index_tasks[s][i].arg).index,
                               Val(index_tasks[s][i].arg).source_id)] :
                 i \in {j \in DOMAIN index_tasks[s] : Called(index_tasks[s][j])} }
       \cup { [call |-> <<"_gen_embeddings", i>>,
               key |-> MockKey("embedding_gen_embed",
                               Val(embed_tasks[s][i].arg).process_index,
                               Val(embed_tasks[s][i].arg).id_and_index_dict.source_id)] :
                 i \in {j \in DOMAIN embed_tasks[s] : Called(embed_tasks[s][j])} }

\* --------------------------------------------------------------- behaviour

\* The variables of the other components.
outside_consolidate == <<broker_vars, chroma_vars, stream_vars, lifecycle_vars, merge_vars>>

Next ==
    \/ \E observation \in ObservationInputs : on_observation_complete(observation)
          /\ UNCHANGED outside_consolidate
    \/ \E s \in Slots : generate_summary_embeddings_call(s)
          /\ UNCHANGED outside_consolidate
    \/ \E s \in Slots : generate_summary_embeddings_resume(s)
          /\ UNCHANGED outside_consolidate
    \/ \E s \in Slots : generate_engrams(s)
          /\ UNCHANGED outside_consolidate
    \/ \E s \in Slots : on_engrams(s)
          /\ UNCHANGED outside_consolidate
    \/ \E s \in Slots : \E i \in 1..Len(index_tasks[s]) : gen_indices_call(s, i)
          /\ UNCHANGED outside_consolidate
    \/ \E s \in Slots : \E i \in 1..Len(index_tasks[s]) : gen_indices_resume(s, i)
          /\ UNCHANGED outside_consolidate
    \/ \E s \in Slots : on_indices_done(s)
          /\ UNCHANGED outside_consolidate
    \/ \E s \in Slots : \E i \in 1..Len(embed_tasks[s]) : gen_embeddings_call(s, i)
          /\ UNCHANGED outside_consolidate
    \/ \E s \in Slots : \E i \in 1..Len(embed_tasks[s]) : gen_embeddings_resume(s, i)
          /\ UNCHANGED outside_consolidate
    \/ \E s \in Slots : on_embeddings_done(s)
          /\ UNCHANGED outside_consolidate

Spec == Init /\ [][Next]_vars

\* ------------------------------------------------- metrics, on_acknowledge

\* MetricsTracker.get_and_reset_packet: the current values, and every counter
\* back at zero, in one step.
get_and_reset_packet(counters) ==
    [packet |-> counters, counters |-> NoMetrics]

\* Mutant of on_acknowledge: the packet is taken a second time before it is
\* published, so STATUS carries the counters after the reset.
on_acknowledge_stale ==
    /\ acknowledged < MaxAcknowledges
    /\ acknowledged' = acknowledged + 1
    /\ LET first == get_and_reset_packet(metrics)
           taken == get_and_reset_packet(first.counters)
       IN /\ metrics' = taken.counters
          /\ status_sent' = Append(status_sent,
                [topic |-> "STATUS", name |-> "ConsolidateService",
                 metrics |-> taken.packet])
    /\ UNCHANGED <<incremented, calls_counted>>

\* Lines 298-306: take and reset the counters, publish them in one STATUS.
on_acknowledge ==
    /\ acknowledged < MaxAcknowledges
    /\ acknowledged' = acknowledged + 1
    /\ LET taken == get_and_reset_packet(metrics)
       IN /\ metrics' = taken.counters
          /\ status_sent' = Append(status_sent,
                [topic |-> "STATUS", name |-> "ConsolidateService",
                 metrics |-> taken.packet])
    /\ UNCHANGED <<incremented, calls_counted>>

\* The observations published in the runs in which ACKNOWLEDGE messages arrive:
\* one with a summary and one engram, one with two engrams.
MetricsObservations ==
    { Observation("s2", Some(Index("summary two", None)), <<E1>>),
      Observation("s1", None, <<E1, E2>>) }

\* The pipeline of the service, handling one observation, together with its
\* ACKNOWLEDGE handler.
MetricsNext ==
    \/ /\ observations = <<>>
       /\ \E observation \in MetricsObservations : on_observation_complete(observation)
       /\ UNCHANGED outside_consolidate
    \/ \E s \in Slots : generate_summary_embeddings_call(s)
          /\ UNCHANGED outside_consolidate
    \/ \E s \in Slots : generate_summary_embeddings_resume(s)
          /\ UNCHANGED outside_consolidate
    \/ \E s \in Slots : generate_engrams(s)
          /\ UNCHANGED outside_consolidate
    \/ \E s \in Slots : on_engrams(s)
          /\ UNCHANGED outside_consolidate
    \/ \E s \in Slots : \E i \in 1..Len(index_tasks[s]) : gen_indices_call(s, i)
          /\ UNCHANGED outside_consolidate
    \/ \E s \in Slots : \E i \in 1..Len(index_tasks[s]) : gen_indices_resume(s, i)
          /\ UNCHANGED outside_consolidate
    \/ \E s \in Slots : on_indices_done(s)
          /\ UNCHANGED outside_consolidate
    \/ \E s \in Slots : \E i \in 1..Len(embed_tasks[s]) : gen_embeddings_call(s, i)
          /\ UNCHANGED outside_consolidate
    \/ \E s \in Slots : \E i \in 1..Len(embed_tasks[s]) : gen_embeddings_resume(s, i)
          /\ UNCHANGED outside_consolidate
    \/ \E s \in Slots : on_embeddings_done(s)
          /\ UNCHANGED outside_consolidate
    \/ on_acknowledge /\ UNCHANGED <<consolidate_vars, outside_consolidate>>

MetricsSpec == Init /\ [][MetricsNext]_vars

\* ------------------------------------------------------- BaseMessageService

\* The multipart messages publishers push: [topic, payload] pairs, and one
\* message of three frames, which the loop cannot unpack.
PushedMessages ==
    { <<topic, payload>> : topic \in {"ENGRAM_COMPLETE", "STATUS"}, payload \in {"p1", "p2"} }
    \cup { <<"STATUS", "p1", "p2">> }

\* Mutant of init_async: a failed bind of the pub endpoint is not raised.
init_async_unchecked_pub(pull_ok, pub_ok) ==
    /\ broker_pc = "new"
    /\ IF ~pull_ok
       THEN /\ pull_socket' = "failed"
            /\ broker_pc' = "failed"
            /\ broker_error' = "Failed to bind socket"
            /\ UNCHANGED pub_socket
       ELSE /\ pull_socket' = "bound"
            /\ pub_socket' = IF pub_ok THEN "bound" ELSE "failed"
            /\ broker_pc' = "scheduled"
            /\ UNCHANGED broker_error
    /\ UNCHANGED <<pull_pushed, pull_queue, pub_sent, broker_metrics, recieved_stop_message,
                   pushed_at_stop>>

\* Lines 26-46: bind the pull endpoint, then the pub endpoint; a ZMQError of
\* either bind is raised as OSError('Failed to bind socket'); only after both
\* binds is the forwarding loop handed to run_background, which schedules it:
\* its first turn comes later.
init_async(pull_ok, pub_ok) ==
    /\ broker_pc = "new"
    /\ IF ~pull_ok
       THEN /\ pull_socket' = "failed"
            /\ broker_pc' = "failed"
            /\ broker_error' = "Failed to bind socket"
            /\ UNCHANGED pub_socket
       ELSE /\ pull_socket' = "bound"
            /\ IF ~pub_ok
               THEN /\ pub_socket' = "failed"
                    /\ broker_pc' = "failed"
                    /\ broker_error' = "Failed to bind socket"
               ELSE /\ pub_socket' = "bound"
                    /\ broker_pc' = "scheduled"
                    /\ UNCHANGED broker_error
    /\ UNCHANGED <<pull_pushed, pull_queue, pub_sent, broker_metrics, recieved_stop_message,
                   pushed_at_stop>>

\* A publisher pushes a message to the bound pull endpoint.
publisher_push(frames) ==
    /\ pull_socket = "bound"
    /\ Len(pull_pushed) < MaxPushed
    /\ pull_pushed' = Append(pull_pushed, frames)
    /\ pull_queue' = Append(pull_queue, frames)
    /\ UNCHANGED <<broker_pc, broker_error, pull_socket, pub_socket, pub_sent,
                   broker_metrics, recieved_stop_message,
                   pushed_at_stop>>

\* Service sets recieved_stop_message when it is told to stop.
set_stop_message ==
    /\ broker_pc \notin {"new", "failed"}
    /\ ~recieved_stop_message
    /\ recieved_stop_message' = TRUE
    /\ pushed_at_stop' = Some(Len(pull_pushed))
    /\ UNCHANGED <<broker_pc, broker_error, pull_socket, pub_socket, pull_pushed,
                   pull_queue, pub_sent, broker_metrics>>

\* The places where the loop's task is not running: scheduled and not yet
\* started, suspended in recv_multipart (line 57) with nothing handed to it,
\* or with a message handed to it and its next turn still to come.
Suspended == {"scheduled", "recv", "delivered"}

\* Service.stop, as BaseMessageService.stop calls it: the service is marked as
\* stopping and its background task is cancelled; a task that is not running
\* ends there, also one that has a message handed to it and has not resumed.
Service_stop_background ==
    /\ recieved_stop_message' = TRUE
    /\ pushed_at_stop' = IF recieved_stop_message THEN pushed_at_stop
                         ELSE Some(Len(pull_pushed))
    /\ broker_pc' = IF broker_pc \in Suspended THEN "cancelled" ELSE broker_pc

\* BaseMessageService.stop (lines 48-52): close the pub socket and the pull
\* socket, terminate the context, then super().stop().  stop is a plain
\* function and does not await that call: it takes effect when Service.stop is
\* a plain function too (runs), and is a coroutine that never runs when
\* Service.stop is a coroutine function, as ConsolidateService.stop (lines
\* 92-93) awaits it.  stop runs on the service's scheduler, so not in the
\* middle of a turn of the loop: after a failed init_async, before the loop's
\* first turn, while the loop is suspended in recv_multipart, between the
\* turn that hands it a message and the turn that resumes it, or after the
\* loop has ended; it needs the pub socket to exist (line 49).
broker_stop(runs) ==
    /\ broker_pc \in {"failed", "exited", "crashed"} \cup Suspended
    /\ pub_socket \in {"bound", "failed"}
    /\ pub_socket' = "closed"
    /\ pull_socket' = "closed"
    /\ IF runs THEN Service_stop_background
       ELSE UNCHANGED <<recieved_stop_message, pushed_at_stop, broker_pc>>
    /\ UNCHANGED <<broker_error, pull_pushed, pull_queue, pub_sent, broker_metrics>>

\* Line 57 after stop closed the pull socket under the suspended loop: closing
\* the socket cancels the pending recv_multipart, which ends the loop.
listen_recv_closed ==
    /\ broker_pc = "recv"
    /\ pull_socket = "closed"
    /\ broker_pc' = "cancelled"
    /\ UNCHANGED <<broker_error, pull_socket, pub_socket, pull_pushed, pull_queue,
                   pub_sent, broker_metrics, recieved_stop_message, pushed_at_stop>>

\* Line 56 and the call of line 57, at the loop's first turn and after each
\* message: the loop ends once recieved_stop_message is set; else it calls
\* recv_multipart and awaits it, which raises the socket's error on a socket
\* stop() has closed and otherwise leaves the loop waiting for the next message.
listen_test ==
    /\ broker_pc \in {"scheduled", "test"}
    /\ broker_pc' = IF recieved_stop_message THEN "exited"
                    ELSE IF pull_socket = "closed" THEN "crashed"
                    ELSE "recv"
    /\ UNCHANGED <<broker_error, pull_socket, pub_socket, pull_pushed, pull_queue,
                   pub_sent, broker_metrics, recieved_stop_message,
                   pushed_at_stop>>

\* Line 57, the socket's side: the oldest waiting message is read from the open
\* pull socket and handed to the waiting recv_multipart; the loop resumes
\* with it in a later turn of the scheduler.
listen_deliver ==
    /\ broker_pc = "recv"
    /\ pull_socket = "bound"
    /\ pull_queue # <<>>
    /\ broker_pc' = "delivered"
    /\ UNCHANGED <<broker_error, pull_socket, pub_socket, pull_pushed, pull_queue,
                   pub_sent, broker_metrics, recieved_stop_message, pushed_at_stop>>

\* Lines 57-58: the loop resumes with the message handed to it, whether or not
\* stop() has closed the sockets since; unpacking it into topic and message
\* raises ValueError unless it has two frames; count the message as received.
listen_recv ==
    /\ broker_pc = "delivered"
    /\ pull_queue' = Tail(pull_queue)
    /\ IF Len(Head(pull_queue)) # 2
       THEN /\ broker_pc' = "crashed"
            /\ UNCHANGED broker_metrics
       ELSE /\ broker_pc' = "send"
            /\ broker_metrics' = increment(broker_metrics, "message_recieved", 1)
    /\ UNCHANGED <<broker_error, pull_socket, pub_socket, pull_pushed, pub_sent,
                   recieved_stop_message, pushed_at_stop>>

\* The messages received so far: the pushed ones no longer waiting.
Received == SubSeq(pull_pushed, 1, Len(pull_pushed) - Len(pull_queue))

\* Line 59: the multipart message handed to send_multipart.
Forward(topic, message) == <<topic, message>>

\* Lines 59-60: call send_multipart with the message in hand and count the
\* message as sent.  The call is not awaited: on a pub socket stop() has
\* closed nothing is sent and its error stays in the result nobody reads, so
\* line 60 counts the message all the same and the loop goes back to line 56.
listen_send ==
    /\ broker_pc = "send"
    /\ IF pub_socket = "closed"
       THEN UNCHANGED pub_sent
       ELSE LET frames == Received[Len(Received)]
                topic == frames[1]
                message == frames[2]
            IN pub_sent' = Append(pub_sent, Forward(topic, message))
    /\ broker_metrics' = increment(broker_metrics, "message_sent", 1)
    /\ broker_pc' = "test"
    /\ UNCHANGED <<broker_error, pull_socket, pub_socket, pull_pushed, pull_queue,
                   recieved_stop_message, pushed_at_stop>>

\* The variables of the other components.
outside_broker == <<consolidate_vars, metrics_vars, stream_vars, lifecycle_vars, chroma_vars, merge_vars>>

BrokerNext ==
    \/ \E pull_ok, pub_ok \in BOOLEAN :
          init_async(pull_ok, pub_ok) /\ UNCHANGED outside_broker
    \/ \E frames \in PushedMessages : publisher_push(frames) /\ UNCHANGED outside_broker
    \/ set_stop_message /\ UNCHANGED outside_broker
    \/ \E runs \in BOOLEAN : broker_stop(runs) /\ UNCHANGED outside_broker
    \/ listen_recv_closed /\ UNCHANGED outside_broker
    \/ listen_test /\ UNCHANGED outside_broker
    \/ listen_deliver /\ UNCHANGED outside_broker
    \/ listen_recv /\ UNCHANGED outside_broker
    \/ listen_send /\ UNCHANGED outside_broker

BrokerSpec == Init /\ [][BrokerNext]_vars

\* ------------------------------------------------------------------ ChromaDB

\* A path is the sequence of its components: 'local_storage/chroma_db' is
\* <<"local_storage", "chroma_db">> and '/data' is <<"", "data">>.
PathJoin(path, name) == path \o <<name>>

Dirname(path) == SubSeq(path, 1, Len(path) - 1)

\* The values of LOCAL_STORAGE_ROOT_PATH: unset, '/data', 'store'.
RootPathInputs ==
    {None, Some(<<"", "data">>), Some(<<"store">>)}

\* Lines 32-34: the path PersistentClient is opened with.
ClientPath(db_path) == <<"local_storage", "chroma_db">>

\* ChromaDB.__init__ (lines 22-37): create the instance's lock, compute db_path
\* from LOCAL_STORAGE_ROOT_PATH, make its parent directory, open the
\* persistent client and the two collections.  Every construction makes a new
\* instance with a lock of its own.
chroma_init(root_path) ==
    /\ Len(multi_process_lock) < MaxAdapters
    /\ multi_process_lock' = Append(multi_process_lock, None)
    /\ LET db_path == IF ~IsNone(root_path)
                      THEN PathJoin(Val(root_path), "chroma_db")
                      ELSE PathJoin(<<"local_storage">>, "chroma_db")
       IN /\ chroma_dirs' = chroma_dirs \cup {Dirname(db_path)}
          /\ chroma_client_path' = Append(chroma_client_path, ClientPath(db_path))
    /\ local_storage_root_path' = Append(local_storage_root_path, root_path)
    /\ UNCHANGED callers

\* Distances are counted in tenths: the default threshold 0.5 is 5.
DEFAULT_THRESHOLD == 5

DEFAULT_N_RESULTS == 2

\* The args of a query: each of threshold and n_results absent or given; a
\* threshold given is 0.3.
QueryArgs ==
    [threshold : {None, Some(3)},
     n_results : {None} \cup {Some(n) : n \in 1..MaxNResults}]

\* A row of a collection as a query sees it: the document (the id of the
\* object the index belongs to) and the distance to the query embedding.
Rows == [document : {"d1", "d2"}, distance : {3, 5}]

\* The rows of a collection ranked by a query, nearest first.
Rankings ==
    UNION { { ranking \in [1..k -> Rows] :
                \A i \in 1..k : \A j \in 1..k :
                    i < j => ranking[i].distance <= ranking[j].distance } :
            k \in 0..MaxRows }

\* Line 52: collection.query returns the n_results nearest rows.
CollectionQuery(ranking, n_results) ==
    SubSeq(ranking, 1, Min(n_results, Len(ranking)))

\* Line 59: the rows kept.
WithinThreshold(distance, threshold) == distance < threshold

\* Lines 48-49: args['n_results'] is read when args has a threshold, and
\* raises KeyError when args has no n_results then.
KeyError(args) == ~IsNone(args.threshold) /\ IsNone(args.n_results)

\* Lines 40-62: what ChromaDB.query makes of its args and of the rows the
\* collection holds when line 52 asks it.
query(args, ranking) ==
    LET threshold == IF ~IsNone(args.threshold) THEN Val(args.threshold)
                     ELSE DEFAULT_THRESHOLD
    IN IF KeyError(args)
       THEN [raised |-> "KeyError", n_results |-> None, query_set |-> {}]
       ELSE LET n_results == IF ~IsNone(args.threshold) THEN Val(args.n_results)
                             ELSE DEFAULT_N_RESULTS
                results == CollectionQuery(ranking, n_results)
                ret_ids == SelectSeq(results,
                              LAMBDA row : WithinThreshold(row.distance, threshold))
            IN [raised |-> "", n_results |-> Some(n_results),
                query_set |-> {ret_ids[i].document : i \in DOMAIN ret_ids}]

\* A thread can start a call when it is in none.
NotInCall(t) == callers[t].pc \in {"idle", "returned", "raised"}

\* A thread calls query on an instance and runs lines 40-49, up to the with
\* statement; the KeyError of line 49 ends the call there.
chroma_query_call(t, adapter, args) ==
    /\ NotInCall(t)
    /\ adapter \in DOMAIN multi_process_lock
    /\ callers' = [callers EXCEPT ![t] =
          IF KeyError(args)
          THEN [pc |-> "raised", adapter |-> 0, op |-> "query",
                args |-> Some(args), ranking |-> None,
                outcome |-> Some(query(args, <<>>))]
          ELSE [pc |-> "at_with", adapter |-> adapter, op |-> "query",
                args |-> Some(args), ranking |-> None, outcome |-> None]]
    /\ UNCHANGED <<local_storage_root_path, chroma_dirs, chroma_client_path,
                   multi_process_lock>>

\* A thread calls insert on an instance and runs lines 65-75, up to the with
\* statement.
chroma_insert_call(t, adapter) ==
    /\ NotInCall(t)
    /\ adapter \in DOMAIN multi_process_lock
    /\ callers' = [callers EXCEPT ![t] =
          [pc |-> "at_with", adapter |-> adapter, op |-> "insert",
           args |-> None, ranking |-> None, outcome |-> None]]
    /\ UNCHANGED <<local_storage_root_path, chroma_dirs, chroma_client_path,
                   multi_process_lock>>

\* Lines 51, 77: the with statement acquires self.multi_process_lock once it is
\* free; the thread is then in collection.query or collection.add.
lock_enter(t) ==
    /\ callers[t].pc = "at_with"
    /\ IsNone(multi_process_lock[callers[t].adapter])
    /\ multi_process_lock' = [multi_process_lock EXCEPT ![callers[t].adapter] = Some(t)]
    /\ callers' = [callers EXCEPT ![t] = [@ EXCEPT !.pc = "collection"]]
    /\ UNCHANGED <<local_storage_root_path, chroma_dirs, chroma_client_path>>

\* Lines 52, 78: the collection call returns and the with statement releases
\* the lock.  insert ends there; query goes on, outside the lock, with the
\* rows the collection held, nearest first.
lock_exit(t, ranking) ==
    /\ callers[t].pc = "collection"
    /\ multi_process_lock' = [multi_process_lock EXCEPT ![callers[t].adapter] = None]
    /\ callers' = [callers EXCEPT ![t] =
          IF callers[t].op = "insert" THEN Idle
          ELSE [@ EXCEPT !.pc = "after_with", !.adapter = 0,
                         !.ranking = Some(ranking)]]
    /\ UNCHANGED <<local_storage_root_path, chroma_dirs, chroma_client_path>>

\* Lines 54-62: keep the documents of the rows within the threshold and
\* return them as query_set.
chroma_query_return(t) ==
    /\ callers[t].pc = "after_with"
    /\ callers' = [callers EXCEPT ![t] =
          [@ EXCEPT !.pc = "returned",
                    !.outcome = Some(query(Val(callers[t].args), Val(callers[t].ranking)))]]
    /\ UNCHANGED <<local_storage_root_path, chroma_dirs, chroma_client_path,
                   multi_process_lock>>

\* The variables of the other components.
outside_chroma == <<consolidate_vars, metrics_vars, broker_vars, stream_vars, lifecycle_vars, merge_vars>>

\* The steps of the adapters for the given environment values, threads, query
\* args and collection contents.
ChromaSteps(root_paths, threads, query_args, rankings) ==
    \/ \E root_path \in root_paths : chroma_init(root_path) /\ UNCHANGED outside_chroma
    \/ \E t \in threads : \E adapter \in 1..MaxAdapters : \E args \in query_args :
          chroma_query_call(t, adapter, args) /\ UNCHANGED outside_chroma
    \/ \E t \in threads : \E adapter \in 1..MaxAdapters :
          chroma_insert_call(t, adapter) /\ UNCHANGED outside_chroma
    \/ \E t \in threads : lock_enter(t) /\ UNCHANGED outside_chroma
    \/ \E t \in threads : \E ranking \in rankings :
          lock_exit(t, ranking) /\ UNCHANGED outside_chroma
    \/ \E t \in threads : chroma_query_return(t) /\ UNCHANGED outside_chroma

\* Two threads, every environment value, every args and every collection.
ChromaNext == ChromaSteps(RootPathInputs, 1..MaxQueryCallers, QueryArgs, Rankings)

ChromaSpec == Init /\ [][ChromaNext]_vars

\* ------------------------------------------------- Gemini.submit_streaming

\* LLM.StreamPacket (core/llm.py lines 18-22).
StreamPacket(packet, finish, finish_reason) ==
    [packet |-> packet, finish |-> finish, finish_reason |-> finish_reason]

\* The responses generate_content_stream may yield: up to MaxChunks chunks.
ChunkInputs ==
    UNION { [1..k -> {[text |-> "x"], [text |-> "y"]}] : k \in 0..MaxChunks }

\* Lines 76-104: build the request and open the stream.
submit_streaming(chunks) ==
    /\ stream_pc \in {"idle", "returned", "raised"}
    /\ stream_calls < MaxStreamCalls
    /\ stream_calls' = stream_calls + 1
    /\ stream_chunks' = chunks
    /\ stream_packets' = <<>>
    /\ full_response' = ""
    /\ stream_pc' = "streaming"

\* Lines 105-107: one turn of the loop: send the chunk in a packet with
\* finish False and add its text to the response.
stream_chunk ==
    /\ stream_pc = "streaming"
    /\ Len(stream_packets) < Len(stream_chunks)
    /\ LET chunk == stream_chunks[Len(stream_packets) + 1]
       IN /\ stream_packets' = Append(stream_packets, StreamPacket(chunk, FALSE, ""))
          /\ full_response' = full_response \o chunk.text
    /\ UNCHANGED <<stream_pc, stream_chunks, stream_calls>>

\* The stream raises instead of yielding its next chunk or ending.
stream_raise ==
    /\ stream_pc = "streaming"
    /\ stream_pc' = "raised"
    /\ UNCHANGED <<stream_chunks, stream_packets, full_response, stream_calls>>

\* Line 109: the stream has ended; return {'llm_response': full_response}.
stream_return ==
    /\ stream_pc = "streaming"
    /\ Len(stream_packets) = Len(stream_chunks)
    /\ stream_pc' = "returned"
    /\ UNCHANGED <<stream_chunks, stream_packets, full_response, stream_calls>>

\* The variables of the other components.
outside_stream == <<consolidate_vars, metrics_vars, broker_vars, chroma_vars, lifecycle_vars, merge_vars>>

StreamNext ==
    \/ \E chunks \in ChunkInputs : submit_streaming(chunks) /\ UNCHANGED outside_stream
    \/ stream_chunk /\ UNCHANGED outside_stream
    \/ stream_raise /\ UNCHANGED outside_stream
    \/ stream_return /\ UNCHANGED outside_stream

StreamSpec == Init /\ [][StreamNext]_vars

\* ----------------------------------------------- ChromaDB.multi_process_lock

\* The args of the queries made under contention: {'threshold': 0.5,
\* 'n_results': 1}.
LockQueryArgs == {[threshold |-> Some(5), n_results |-> Some(1)]}

\* The collection the queries made under contention see: one row.
LockRankings == {<<[document |-> "d1", distance |-> 3]>>}

\* MaxCallers threads calling query and insert on the instances of a process
\* whose LOCAL_STORAGE_ROOT_PATH is unset.
LockNext == ChromaSteps({None}, 1..MaxCallers, LockQueryArgs, LockRankings)

LockSpec == Init /\ [][LockNext]_vars

\* ------------------------------------------- ConsolidateService start to stop

\* The observations published in the runs that end with a stop of the service:
\* a valid engram together with one without context, and an observation with
\* that valid engram alone.
LifecycleObservations ==
    { Observation("s7", None, <<E3, E4>>),
      Observation("s6", None, <<E3>>) }

\* Service.stop: the service's scheduler is shut down; the tasks and joins that
\* have not completed by then are abandoned.
Service_stop == service_stopped' = TRUE

\* ConsolidateService.stop (lines 92-93): nothing but the base class's stop.
stop ==
    /\ ~service_stopped
    /\ Service_stop
    /\ UNCHANGED <<consolidate_vars, metrics_vars>>

outside_lifecycle == <<broker_vars, chroma_vars, stream_vars, merge_vars>>

\* The handlers and tasks of the pipeline run until the service has stopped.
LifecycleNext ==
    \/ /\ ~service_stopped
       /\ \E observation \in LifecycleObservations : on_observation_complete(observation)
       /\ UNCHANGED <<outside_lifecycle, lifecycle_vars>>
    \/ /\ ~service_stopped
       /\ \E s \in Slots : generate_engrams(s)
       /\ UNCHANGED <<outside_lifecycle, lifecycle_vars>>
    \/ /\ ~service_stopped
       /\ \E s \in Slots : on_engrams(s)
       /\ UNCHANGED <<outside_lifecycle, lifecycle_vars>>
    \/ /\ ~service_stopped
       /\ \E s \in Slots : generate_summary_embeddings_call(s)
       /\ UNCHANGED <<outside_lifecycle, lifecycle_vars>>
    \/ /\ ~service_stopped
       /\ \E s \in Slots : \E i \in 1..Len(index_tasks[s]) : gen_indices_call(s, i)
       /\ UNCHANGED <<outside_lifecycle, lifecycle_vars>>
    \/ /\ ~service_stopped
       /\ \E s \in Slots : \E i \in 1..Len(index_tasks[s]) : gen_indices_resume(s, i)
       /\ UNCHANGED <<outside_lifecycle, lifecycle_vars>>
    \/ /\ ~service_stopped
       /\ \E s \in Slots : on_indices_done(s)
       /\ UNCHANGED <<outside_lifecycle, lifecycle_vars>>
    \/ /\ ~service_stopped
       /\ \E s \in Slots : \E i \in 1..Len(embed_tasks[s]) : gen_embeddings_call(s, i)
       /\ UNCHANGED <<outside_lifecycle, lifecycle_vars>>
    \/ /\ ~service_stopped
       /\ \E s \in Slots : \E i \in 1..Len(embed_tasks[s]) : gen_embeddings_resume(s, i)
       /\ UNCHANGED <<outside_lifecycle, lifecycle_vars>>
    \/ /\ ~service_stopped
       /\ \E s \in Slots : on_embeddings_done(s)
       /\ UNCHANGED <<outside_lifecycle, lifecycle_vars>>
    \/ stop /\ UNCHANGED outside_lifecycle

LifecycleSpec == Init /\ [][LifecycleNext]_vars

\* ------------------------------------------ ObservationSystem.merge_observation

\* The n-th id handed out by uuid.uuid4 (lines 47, 57).
Uuid(n) == <<"uuid4", n>>

\* Meta (meta.py lines 10-21): a dataclass; positional arguments bind to the
\* fields in their order of declaration: id, locations, source_ids, keywords,
\* summary_initial, summary_full.
Meta(a1, a2, a3, a4, a5, a6) ==
    [id |-> a1, locations |-> a2, source_ids |-> a3, keywords |-> a4,
     summary_initial |-> a5, summary_full |-> a6]

\* The fields of an engram that merge_observation reads (lines 35, 39, 42).
ScoredEngram(id, accuracy, relevancy, source_ids, locations) ==
    [id |-> id, accuracy |-> accuracy, relevancy |-> relevancy,
     source_ids |-> source_ids, locations |-> locations]

\* The observation a merge works on: id, meta, engram_list.
MergeInput(meta, engram_list) ==
    [id |-> <<"observation", 1>>, meta |-> meta, engram_list |-> engram_list]

\* Where an engram can come from: its source ids with its locations.
Origins ==
    {[source_ids |-> <<"src1">>, locations |-> <<"loc1">>],
     [source_ids |-> <<"src2", "src1">>, locations |-> <<"loc2", "loc1">>]}

\* The engram at position i of an input: scores from 0..MaxScore and one of
\* the origins.
ScoredEngrams(i) ==
    {ScoredEngram(<<"engram", i>>, accuracy, relevancy, origin.source_ids, origin.locations) :
        accuracy \in 0..MaxScore, relevancy \in 0..MaxScore, origin \in Origins}

RECURSIVE EngramLists(_)
\* The engram lists of length n.
EngramLists(n) ==
    IF n = 0 THEN {<<>>}
    ELSE {Append(front, m) : front \in EngramLists(n - 1), m \in ScoredEngrams(n)}

\* The metas of the inputs: summary_full is an Index or None (meta.py line 21).
MergeMetas ==
    {Meta(<<"meta", 1>>, <<"loc1">>, <<"src1">>, <<"kw1", "kw2">>, Some("short"), summary_full) :
        summary_full \in {None, Some(Index("full", <<1, 2>>))}}

\* The observations merge_observation is called with.
MergeObservations ==
    {MergeInput(meta, engram_list) :
        meta \in MergeMetas,
        engram_list \in UNION {EngramLists(n) : n \in 0..MaxMergeEngrams}}

\* Line 30: dataclasses.asdict copies the observation, field by field and
\* recursively, into dicts and lists of its own.
asdict(observation) ==
    [id |-> observation.id,
     meta |-> [id |-> observation.meta.id,
               locations |-> observation.meta.locations,
               source_ids |-> observation.meta.source_ids,
               keywords |-> observation.meta.keywords,
               summary_initial |-> observation.meta.summary_initial,
               summary_full |-> IF IsNone(observation.meta.summary_full) THEN None
                                ELSE Some([text |-> Val(observation.meta.summary_full).text,
                                           embedding |-> Val(observation.meta.summary_full).embedding])],
     engram_list |-> [i \in DOMAIN observation.engram_list |->
                        [id |-> observation.engram_list[i].id,
                         accuracy |-> observation.engram_list[i].accuracy,
                         relevancy |-> observation.engram_list[i].relevancy,
                         source_ids |-> observation.engram_list[i].source_ids,
                         locations |-> observation.engram_list[i].locations]]]

\* A filter that also lets through a score equal to its filter value.
filtered_engrams_dict_inclusive(engram_list, accuracy_filter, relevancy_filter) ==
    SelectSeq(engram_list,
              LAMBDA m : m.accuracy >= accuracy_filter /\ m.relevancy >= relevancy_filter)

\* Lines 32-36: the dicts of the engrams whose accuracy and relevancy both
\* exceed their filter, in the order of engram_list.
filtered_engrams_dict(engram_list, accuracy_filter, relevancy_filter) ==
    SelectSeq(engram_list,
              LAMBDA m : m.accuracy > accuracy_filter /\ m.relevancy > relevancy_filter)

RECURSIVE DictKeys(_)
\* list({key: ... for key in seq}): the keys of a dict in insertion order, each
\* key where it came first.
DictKeys(seq) ==
    IF seq = <<>> THEN <<>>
    ELSE LET front == DictKeys(SubSeq(seq, 1, Len(seq) - 1))
             last == seq[Len(seq)]
         IN  IF last \in Range(front) THEN front ELSE Append(front, last)

RECURSIVE Chain(_)
\* The elements of the lists of seqs, list after list.
Chain(seqs) ==
    IF seqs = <<>> THEN <<>>
    ELSE Chain(SubSeq(seqs, 1, Len(seqs) - 1)) \o seqs[Len(seqs)]

\* Lines 38-40.
combined_source_ids(filtered) ==
    DictKeys(Chain([i \in DOMAIN filtered |-> filtered[i].source_ids]))

\* Lines 41-43.
combined_locations(filtered) ==
    DictKeys(Chain([i \in DOMAIN filtered |-> filtered[i].locations]))

\* Line 55: EngramRepository.load_batch_dict builds one engram from each dict,
\* in the order of the list.
load_batch_dict(dict_list) ==
    [i \in DOMAIN dict_list |->
        ScoredEngram(dict_list[i].id, dict_list[i].accuracy, dict_list[i].relevancy,
                     dict_list[i].source_ids, dict_list[i].locations)]

\* Lines 46-53: the merged meta; the arguments are passed by position.
new_meta(observation_dict, filtered, issued) ==
    Meta(Uuid(issued + 1),
         combined_source_ids(filtered),
         combined_locations(filtered),
         observation_dict.meta.keywords,
         observation_dict.meta.summary_initial,
         Some(Index(Val(observation_dict.meta.summary_full).text,
                    Val(observation_dict.meta.summary_full).embedding)))

\* Lines 26-59: the outcome of a call: the exception raised ("" if none), the
\* observation returned, the observation passed as the call leaves it and the
\* number of ids handed out so far. Index(**None) on line 45 raises TypeError
\* before anything is built.
merge_observation(observation, accuracy_filter, relevancy_filter, issued) ==
    LET observation_dict == asdict(observation)
        filtered == filtered_engrams_dict(observation_dict.engram_list,
                                          accuracy_filter, relevancy_filter)
    IN  IF IsNone(observation_dict.meta.summary_full)
        THEN [error |-> "TypeError", merged_observation |-> None,
              observation |-> observation, uuid_issued |-> issued]
        ELSE [error |-> "",
              merged_observation |->
                  Some([id |-> Uuid(issued + 2),
                        meta |-> new_meta(observation_dict, filtered, issued),
                        engram_list |-> load_batch_dict(filtered)]),
              observation |-> observation,
              uuid_issued |-> issued + 2]

\* A caller passes an observation and the two filters.
merge_call ==
    /\ merge_pc = "idle"
    /\ \E observation \in MergeObservations :
       \E accuracy_filter \in 0..MaxScore : \E relevancy_filter \in 0..MaxScore :
          merge_args' = Some([observation |-> observation,
                              accuracy_filter |-> accuracy_filter,
                              relevancy_filter |-> relevancy_filter])
    /\ merge_pc' = "called"
    /\ UNCHANGED <<merged_observation, merge_error, uuid_issued>>

\* The call runs to its return or to the exception it raises.
merge_return ==
    /\ merge_pc = "called"
    /\ LET args == Val(merge_args)
           outcome == merge_observation(args.observation, args.accuracy_filter,
                                        args.relevancy_filter, uuid_issued)
       IN  /\ merge_pc' = IF outcome.error = "" THEN "returned" ELSE "raised"
           /\ merge_error' = outcome.error
           /\ merged_observation' = outcome.merged_observation
           /\ merge_args' = Some([args EXCEPT !.observation = outcome.observation])
           /\ uuid_issued' = outcome.uuid_issued

outside_merge == <<consolidate_vars, metrics_vars, broker_vars, chroma_vars, stream_vars,
                   lifecycle_vars>>

MergeNext ==
    \/ merge_call /\ UNCHANGED outside_merge
    \/ merge_return /\ UNCHANGED outside_merge

MergeSpec == Init /\ [][MergeNext]_vars

\* ------------------------------------------------------------------ claims

\* The messages of one topic published for slot s, in publication order.
Published(s, topic) == SelectSeq(sent[s], LAMBDA msg : msg.topic = topic)

\* The engram branch of slot s has ended, one way or the other.
Ended(s) == engram_task[s].pc \in {"complete", "failed"}

\* C1: for every admitted observation either exactly one ENGRAM_COMPLETE is
\* published for it, carrying as many engrams as the observation's engram_list,
\* or its engram branch fails and no ENGRAM_COMPLETE is published for it; an
\* ended branch stays ended and publishes no further ENGRAM_COMPLETE.
C1_OneEngramCompleteOrNone ==
    /\ [](\A s \in Slots :
            LET complete == Published(s, "ENGRAM_COMPLETE")
            IN /\ Len(complete) <= 1
               /\ Len(complete) = 1 <=> engram_task[s].pc = "complete"
               /\ engram_task[s].pc = "failed" => complete = <<>>
               /\ \A k \in DOMAIN complete :
                     /\ Len(complete[k].engram_array) = Len(observations[s].engram_list)
                     /\ complete[k].source_id = observations[s].source_id)
    /\ [][\A s \in Slots :
            Ended(s) => /\ engram_task'[s] = engram_task[s]
                        /\ Published(s, "ENGRAM_COMPLETE")' = Published(s, "ENGRAM_COMPLETE")]_vars

\* C1's case: one observation with two engrams has published its ENGRAM_COMPLETE
\* and another observation has failed.
C1_Witness ==
    \E s, f \in Slots :
        /\ Len(observations[s].engram_list) = 2
        /\ engram_task[s].pc = "complete"
        /\ Len(Published(s, "ENGRAM_COMPLETE")) = 1
        /\ engram_task[f].pc = "failed"
        /\ index_tasks[f] # <<>>

\* C2: the engram_array of an ENGRAM_COMPLETE lists the engrams of the
\* observation's engram_list position by position.
C2_PositionalOrder ==
    \A s \in Slots :
        LET complete == Published(s, "ENGRAM_COMPLETE")
        IN \A k \in DOMAIN complete :
            /\ DOMAIN complete[k].engram_array = DOMAIN observations[s].engram_list
            /\ \A i \in DOMAIN complete[k].engram_array :
                  complete[k].engram_array[i].id = observations[s].engram_list[i].id

\* Position of the first INDEX_COMPLETE for engram_id among the messages of slot s.
IndexCompleteAt(s, engram_id) ==
    CHOOSE n \in DOMAIN sent[s] :
        /\ sent[s][n].topic = "INDEX_COMPLETE"
        /\ sent[s][n].engram_id = engram_id

\* C2's case: ENGRAM_COMPLETE was published for two engrams whose embedding tasks
\* completed in the opposite of their submission order.
C2_Witness ==
    \E s \in Slots :
        /\ Len(Published(s, "ENGRAM_COMPLETE")) = 1
        /\ Len(observations[s].engram_list) = 2
        /\ IndexCompleteAt(s, observations[s].engram_list[2].id)
              < IndexCompleteAt(s, observations[s].engram_list[1].id)

\* C3: in every published engram the indices hold one Index per index text the
\* language model returned for it, in that order, the j-th Index pairing the
\* j-th context-prefixed text with the j-th vector of the embedding reply.
C3_OneIndexPerIndexText ==
    \A s \in Slots :
        LET complete == Published(s, "ENGRAM_COMPLETE")
        IN \A k \in DOMAIN complete : \A i \in DOMAIN complete[k].engram_array :
            LET engram == complete[k].engram_array[i]
                model_texts == Val(index_tasks[s][i].reply).index_text_array
                prefixed == Val(index_tasks[s][i].result).indices
                vectors == Val(embed_tasks[s][i].reply).embeddings_list
            IN /\ ~IsNone(engram.indices)
               /\ Len(Val(engram.indices)) = Len(model_texts)
               /\ Len(vectors) >= Len(model_texts)
               /\ \A j \in DOMAIN model_texts :
                     Val(engram.indices)[j] = Index(prefixed[j], Some(vectors[j]))

\* C4: every engram of a published ENGRAM_COMPLETE has at least one index, and
\* every Index published in ENGRAM_COMPLETE or INDEX_COMPLETE has a non-empty
\* text and an embedding vector.
C4_PublishedIndicesNonEmpty ==
    \A s \in Slots :
        LET complete == Published(s, "ENGRAM_COMPLETE")
            index_complete == Published(s, "INDEX_COMPLETE")
            Whole(index) == index.text # "" /\ ~IsNone(index.embedding)
        IN /\ \A k \in DOMAIN complete : \A i \in DOMAIN complete[k].engram_array :
                LET engram == complete[k].engram_array[i]
                IN /\ ~IsNone(engram.indices)
                   /\ Len(Val(engram.indices)) >= 1
                   /\ \A j \in DOMAIN Val(engram.indices) : Whole(Val(engram.indices)[j])
           /\ \A k \in DOMAIN index_complete : \A j \in DOMAIN index_complete[k].index :
                Whole(index_complete[k].index[j])

\* C5: whenever every admitted observation has published ENGRAM_COMPLETE or
\* failed, engram_builder is empty.
C5_BuilderEmptyWhenIdle ==
    (\A s \in Slots : Ended(s)) => DOMAIN engram_builder = {}

\* The engram branch of slot s can take its next step.
EngramBranchCanStep(s) ==
    /\ engram_task[s].pc = "ready" => ENABLED generate_engrams(s)
    /\ engram_task[s].pc = "generated" => ENABLED on_engrams(s)
    /\ \A i \in DOMAIN index_tasks[s] :
          /\ index_tasks[s][i].pc = "ready" => ENABLED gen_indices_call(s, i)
          /\ index_tasks[s][i].pc = "calling" => ENABLED gen_indices_resume(s, i)
    /\ (engram_task[s].pc = "indexing" /\ JoinComplete(index_tasks[s]))
          => ENABLED on_indices_done(s)
    /\ \A i \in DOMAIN embed_tasks[s] :
          /\ embed_tasks[s][i].pc = "ready" => ENABLED gen_embeddings_call(s, i)
          /\ embed_tasks[s][i].pc = "calling" => ENABLED gen_embeddings_resume(s, i)
    /\ (engram_task[s].pc = "embedding" /\ JoinComplete(embed_tasks[s]))
          => ENABLED on_embeddings_done(s)

\* The summary branch of slot s can take its next step.
SummaryBranchCanStep(s) ==
    /\ summary_task[s].pc = "ready" => ENABLED generate_summary_embeddings_call(s)
    /\ summary_task[s].pc = "calling" => ENABLED generate_summary_embeddings_resume(s)

\* C6: neither branch of an observation waits for the other: whatever state the
\* summary branch is in (not started, suspended, done or failed) the engram
\* branch can take its next step, up to publishing ENGRAM_COMPLETE, and whatever
\* state the engram branch is in the summary branch can take its next step.
C6_BranchesIndependent ==
    \A s \in Slots : EngramBranchCanStep(s) /\ SummaryBranchCanStep(s)

\* Position of the first message of a topic among the messages of slot s.
PublishedAt(s, topic) == CHOOSE n \in DOMAIN sent[s] : sent[s][n].topic = topic

\* C6's case: one observation published META_COMPLETE before ENGRAM_COMPLETE and
\* another published ENGRAM_COMPLETE before META_COMPLETE.
C6_Witness ==
    \E a, b \in Slots :
        /\ Len(Published(a, "META_COMPLETE")) = 1 /\ Len(Published(a, "ENGRAM_COMPLETE")) = 1
        /\ Len(Published(b, "META_COMPLETE")) = 1 /\ Len(Published(b, "ENGRAM_COMPLETE")) = 1
        /\ PublishedAt(a, "META_COMPLETE") < PublishedAt(a, "ENGRAM_COMPLETE")
        /\ PublishedAt(b, "ENGRAM_COMPLETE") < PublishedAt(b, "META_COMPLETE")

\* ENGRAM_COMPLETE was published although the summary embedding failed, so that
\* META_COMPLETE is never published.
C6_EngramCompleteWithoutMeta ==
    \E s \in Slots :
        /\ ~IsNone(observations[s].meta.summary_full)
        /\ summary_task[s].pc = "failed"
        /\ Published(s, "META_COMPLETE") = <<>>
        /\ Len(Published(s, "ENGRAM_COMPLETE")) = 1

\* Two engrams of the list have equal ids, or one has an id that is a key of builder.
IdCollision(engram_list, builder) ==
    \/ \E i, j \in DOMAIN engram_list : i # j /\ engram_list[i].id = engram_list[j].id
    \/ \E i \in DOMAIN engram_list : engram_list[i].id \in DOMAIN builder

CollisionFailure(s) ==
    engram_task[s].pc = "failed" /\ engram_task[s].error = "Engram ID Collision"

\* C7: when on_engrams runs for an observation with two engrams of equal ids,
\* or with an engram whose id is a key of engram_builder, it raises 'Engram ID
\* Collision' and starts no index task; after that no index or embedding task
\* exists for the observation and no ENGRAM_COMPLETE is published for it.
C7_CollisionIsFatal ==
    /\ [][\A s \in Slots :
            (/\ engram_task[s].pc = "generated"
             /\ engram_task'[s].pc # "generated"
             /\ IdCollision(observations[s].engram_list, engram_builder))
            => (/\ engram_task'[s].pc = "failed"
                /\ engram_task'[s].error = "Engram ID Collision"
                /\ index_tasks'[s] = <<>>)]_vars
    /\ [][\A s \in Slots : CollisionFailure(s) => engram_task'[s] = engram_task[s]]_vars
    /\ [](\A s \in Slots :
            CollisionFailure(s) => /\ index_tasks[s] = <<>>
                                   /\ embed_tasks[s] = <<>>
                                   /\ Published(s, "ENGRAM_COMPLETE") = <<>>)

\* C7's case: one observation failed on two engrams of equal ids and another,
\* whose ids are all different, failed on an id left in engram_builder.
C7_Witness ==
    \E a, b \in Slots :
        /\ CollisionFailure(a)
        /\ \E i, j \in DOMAIN observations[a].engram_list :
              i # j /\ observations[a].engram_list[i].id = observations[a].engram_list[j].id
        /\ CollisionFailure(b)
        /\ \A i, j \in DOMAIN observations[b].engram_list :
              i # j => observations[b].engram_list[i].id # observations[b].engram_list[j].id

\* The language model returned an empty index_text_array to index task i of slot s.
EmptyIndexReply(s, i) ==
    /\ ~IsNone(index_tasks[s][i].reply)
    /\ ~Val(index_tasks[s][i].reply).raised
    /\ Val(index_tasks[s][i].reply).index_text_array = <<>>

\* C8: when the language model returns an empty index_text_array for one engram
\* of an observation, that index task fails, the join of the index tasks never
\* succeeds, no embedding task is created (so the embedding plugin is never
\* called for an engram of the observation) and no INDEX_CREATED,
\* INDEX_COMPLETE or ENGRAM_COMPLETE is published for it.
C8_EmptyIndexIsFatal ==
    \A s \in Slots : \A i \in DOMAIN index_tasks[s] :
        EmptyIndexReply(s, i) =>
            /\ index_tasks[s][i].pc = "failed"
            /\ engram_task[s].pc \in {"indexing", "failed"}
            /\ embed_tasks[s] = <<>>
            /\ Published(s, "INDEX_CREATED") = <<>>
            /\ Published(s, "INDEX_COMPLETE") = <<>>
            /\ Published(s, "ENGRAM_COMPLETE") = <<>>

\* C8's case: of two engrams one got index texts and the other an empty array,
\* and the join has failed.
C8_Witness ==
    \E s \in Slots : \E i, j \in DOMAIN index_tasks[s] :
        /\ EmptyIndexReply(s, i)
        /\ index_tasks[s][j].pc = "done"
        /\ engram_task[s].pc = "failed"

\* The context string of the claim, built item by item from the last one back.
RECURSIVE ClaimedContext(_, _)
ClaimedContext(context, n) ==
    IF n = 0 THEN "Context: "
    ELSE ClaimedContext(context, n - 1)
         \o (IF context[n][2] = "null" THEN ""
             ELSE context[n][1] \o ": " \o context[n][2] \o "\n")

\* C9: every index text _gen_indices returns is 'Context: ', then 'key: value\n'
\* for each context item whose value is not 'null', in map order, then
\* ' Content: ' and the language model's text.
C9_ContextPrefix ==
    \A s \in Slots : \A i \in DOMAIN index_tasks[s] :
        index_tasks[s][i].pc = "done" =>
            LET engram == observations[s].engram_list[i]
                context == Val(engram.context)
                model_texts == Val(index_tasks[s][i].reply).index_text_array
                indices == Val(index_tasks[s][i].result).indices
            IN /\ DOMAIN indices = DOMAIN model_texts
               /\ \A j \in DOMAIN indices :
                     indices[j] = ClaimedContext(context, Len(context))
                                     \o " Content: " \o model_texts[j]
               /\ engram.id = "e1" =>
                     indices[1] = "Context: header: Intro\npage: 2\n Content: a1"
               /\ engram.id = "e2" => indices[1] = "Context:  Content: a1"
               /\ engram.id = "e3" => indices[1] = "Context: header: Intro\n Content: a1"

\* C9's case: two index texts were returned for an engram whose context has an
\* item with the value 'null' between two items with other values.
C9_Witness ==
    \E s \in Slots : \E i \in DOMAIN index_tasks[s] :
        /\ index_tasks[s][i].pc = "done"
        /\ observations[s].engram_list[i].id = "e1"
        /\ Len(Val(index_tasks[s][i].result).indices) = 2

\* C10: META_COMPLETE is published at most once per observation, only for an
\* observation that has a summary_full, and it carries, as does the
\* observation, the first (when there is one only, the single) vector the
\* embedding plugin returned for [summary_full.text]; without a summary_full
\* the branch fails and publishes nothing.
C10_MetaComplete ==
    \A s \in Slots :
        LET meta_complete == Published(s, "META_COMPLETE")
            summary_full == observations[s].meta.summary_full
        IN /\ Len(meta_complete) <= 1
           /\ meta_complete # <<>> =>
                LET reply == Val(summary_task[s].reply)
                IN /\ ~IsNone(summary_full)
                   /\ summary_task[s].pc = "done"
                   /\ Val(summary_task[s].arg).strings = <<Val(summary_full).text>>
                   /\ reply.embeddings_list # <<>>
                   /\ Val(summary_full).embedding = Some(reply.embeddings_list[1])
                   /\ meta_complete[1].meta.summary_full = summary_full
           /\ IsNone(summary_full) =>
                /\ summary_task[s].pc \in {"ready", "failed"}
                /\ meta_complete = <<>>
           /\ summary_task[s].pc = "failed" => meta_complete = <<>>

\* C10's case: META_COMPLETE was published after a reply of two vectors.
C10_Witness ==
    \E s \in Slots :
        /\ Len(Published(s, "META_COMPLETE")) = 1
        /\ Len(Val(summary_task[s].reply).embeddings_list) = 2

\* Summary_full is None and the branch has failed.
C10_NoSummaryFails ==
    \E s \in Slots :
        IsNone(observations[s].meta.summary_full) /\ summary_task[s].pc = "failed"

\* C11: every engram of a published ENGRAM_COMPLETE equals the engram at the
\* same position of the observation's engram_list in every field but indices.
C11_OnlyIndicesChange ==
    \A s \in Slots :
        LET complete == Published(s, "ENGRAM_COMPLETE")
        IN \A k \in DOMAIN complete :
            /\ DOMAIN complete[k].engram_array = DOMAIN observations[s].engram_list
            /\ \A i \in DOMAIN complete[k].engram_array :
                  /\ ~IsNone(complete[k].engram_array[i].indices)
                  /\ [complete[k].engram_array[i] EXCEPT !.indices = None]
                        = observations[s].engram_list[i]

\* C11's case: ENGRAM_COMPLETE was published for the two engrams e1 and e2,
\* whose contexts differ, each with indices attached.
C11_Witness ==
    \E s \in Slots :
        /\ Len(Published(s, "ENGRAM_COMPLETE")) = 1
        /\ Len(observations[s].engram_list) = 2
        /\ \A i \in 1..2 :
              Published(s, "ENGRAM_COMPLETE")[1].engram_array[i].indices # None

\* The ids of the engrams of a list, in its order.
EngramIds(engram_list) == [i \in DOMAIN engram_list |-> engram_list[i].id]

\* The observations of slots a and b have no engram id in common.
DisjointIds(a, b) ==
    Range(EngramIds(observations[a].engram_list))
        \cap Range(EngramIds(observations[b].engram_list)) = {}

\* C19: of two observations with disjoint engram ids, every ENGRAM_COMPLETE
\* published for one carries its source_id and exactly its engrams, none of the
\* other, however their tasks interleave.
C19_NoCrossTalk ==
    \A a, b \in Slots :
        (a # b /\ DisjointIds(a, b)) =>
            LET complete == Published(a, "ENGRAM_COMPLETE")
            IN \A k \in DOMAIN complete :
                /\ complete[k].source_id = observations[a].source_id
                /\ EngramIds(complete[k].engram_array)
                      = EngramIds(observations[a].engram_list)
                /\ Range(EngramIds(complete[k].engram_array))
                      \cap Range(EngramIds(observations[b].engram_list)) = {}

\* C19's case: the observation admitted second, with other ids, has published
\* its ENGRAM_COMPLETE while the one admitted first has one engram embedded and
\* the other still in its embedding call.
C19_Witness ==
    \E a, b \in Slots :
        /\ a < b
        /\ DisjointIds(a, b)
        /\ observations[b].engram_list # <<>>
        /\ Len(Published(b, "ENGRAM_COMPLETE")) = 1
        /\ engram_task[a].pc = "embedding"
        /\ \E i, j \in DOMAIN embed_tasks[a] :
              embed_tasks[a][i].pc = "done" /\ embed_tasks[a][j].pc = "calling"

\* Both observations of C19's case have published their ENGRAM_COMPLETE.
C19_BothComplete ==
    \E a, b \in Slots :
        /\ a # b
        /\ DisjointIds(a, b)
        /\ Len(Published(a, "ENGRAM_COMPLETE")) = 1
        /\ Len(Published(b, "ENGRAM_COMPLETE")) = 1

\* C20: ENGRAM_CREATED is published for an observation only once all its engrams
\* are registered in engram_builder without collision; an observation that
\* failed with an engram id collision has no ENGRAM_CREATED published for it.
C20_CreatedAfterRegistration ==
    \A s \in Slots :
        Published(s, "ENGRAM_CREATED") # <<>> =>
            /\ ~CollisionFailure(s)
            /\ engram_task[s].pc \in {"indexing", "embedding"} =>
                  \A i \in DOMAIN observations[s].engram_list :
                      observations[s].engram_list[i].id \in DOMAIN engram_builder

\* The sum of one counter over the STATUS messages published so far.
RECURSIVE Reported(_, _)
Reported(status, metric) ==
    IF status = <<>> THEN 0
    ELSE Head(status).metrics[metric] + Reported(Tail(status), metric)

\* C12: each ACKNOWLEDGE handled publishes exactly one STATUS, whose metrics are
\* the counters accumulated since the previous one, and puts every counter
\* back to zero in the same step; for every counter the values reported in all
\* STATUS messages plus its current value add up to all increments made.
C12_MetricsConserved ==
    /\ [](/\ Len(status_sent) = acknowledged
          /\ \A metric \in ConsolidateMetric :
                /\ metrics[metric] \in Nat
                /\ \A k \in DOMAIN status_sent : status_sent[k].metrics[metric] \in Nat
                /\ Reported(status_sent, metric) + metrics[metric] = incremented[metric])
    /\ [][acknowledged' # acknowledged =>
            /\ status_sent' = Append(status_sent,
                  [topic |-> "STATUS", name |-> "ConsolidateService", metrics |-> metrics])
            /\ metrics' = NoMetrics]_vars

\* C12's case: two STATUS messages were published, both with counters that are
\* not zero, and a counter has been incremented since the second.
C12_Witness ==
    /\ Len(status_sent) = 2
    /\ \A k \in 1..2 : status_sent[k].metrics # NoMetrics
    /\ metrics # NoMetrics

\* The messages of two frames among those received.
ReceivedPairs == SelectSeq(Received, LAMBDA frames : Len(frames) = 2)

\* What is never broken: nothing is sent that was not received, the messages
\* sent are the first of the two-frame messages received, unchanged and in the
\* order received, at most the last one received is not sent, and the counters
\* keep sent <= received <= sent + 1, received counting the two-frame messages
\* received.
SentArePrefixOfReceived ==
    /\ Len(pub_sent) <= Len(ReceivedPairs)
    /\ pub_sent = SubSeq(ReceivedPairs, 1, Len(pub_sent))
    /\ Len(ReceivedPairs) <= Len(pub_sent) + 1
    /\ broker_pc = "send" => Len(ReceivedPairs) = Len(pub_sent) + 1
    /\ broker_metrics["message_recieved"] = Len(ReceivedPairs)
    /\ broker_metrics["message_sent"] <= broker_metrics["message_recieved"]
    /\ broker_metrics["message_recieved"] <= broker_metrics["message_sent"] + 1

\* C13: the messages sent on the pub socket are the two-frame messages
\* received on the pull socket, each once, unchanged and in the order received:
\* nothing else is ever sent, only a message in hand (received, its send the
\* loop's next step) is not yet sent, and the counters keep
\* sent <= received <= sent + 1.
C13_ForwardedOnceInOrder ==
    /\ SentArePrefixOfReceived
    /\ broker_pc # "send" => pub_sent = ReceivedPairs

\* What does hold: a two-frame message received is sent, and the sent counter
\* is the number of messages sent, unless stop() closed the pub socket before
\* the loop resumed with the message.
C13_ForwardedUnlessClosed ==
    /\ SentArePrefixOfReceived
    /\ (broker_pc # "send" /\ pub_sent # ReceivedPairs) => pub_socket = "closed"
    /\ broker_metrics["message_sent"] # Len(pub_sent) => pub_socket = "closed"

\* A message was received and counted as sent, and the loop has ended without
\* it having been sent.
C13_ReceivedNeverSent ==
    /\ broker_pc = "crashed"
    /\ broker_metrics["message_recieved"] = 1
    /\ broker_metrics["message_sent"] = 1
    /\ Len(ReceivedPairs) = 1
    /\ pub_sent = <<>>

\* C13's case: three messages were received and sent, neighbours differing in
\* topic or payload and the first and the last in topic.
C13_Witness ==
    /\ Len(pub_sent) = 3
    /\ pub_sent[1] # pub_sent[2]
    /\ pub_sent[2] # pub_sent[3]
    /\ pub_sent[1][1] # pub_sent[3][1]
    /\ broker_metrics["message_sent"] = 3

\* A message is in hand: received and not yet sent.
C13_MessageInHand ==
    /\ broker_pc = "send"
    /\ broker_metrics["message_recieved"] = broker_metrics["message_sent"] + 1

\* C14: when the bind of the pull endpoint or of the pub endpoint fails,
\* init_async raises OSError('Failed to bind socket') and the forwarding loop
\* is not started: no message is ever received or sent by that broker.
C14_BindFailureIsFatal ==
    /\ (pull_socket = "failed" \/ pub_socket = "failed") => broker_pc = "failed"
    /\ broker_pc = "failed" =>
          /\ broker_error = "Failed to bind socket"
          /\ Received = <<>>
          /\ pub_sent = <<>>
          /\ \A metric \in MessageMetric : broker_metrics[metric] = 0
          /\ \/ pull_socket = "failed"
             \/ pub_socket = "failed"
             \/ (pull_socket = "closed" /\ pub_socket = "closed")
    /\ broker_pc \notin {"new", "failed"} =>
          (pull_socket \in {"bound", "closed"} /\ pub_socket \in {"bound", "closed"})

\* C14's case: the pull endpoint was bound, the bind of the pub endpoint
\* failed, and messages pushed since then are waiting.
C14_Witness ==
    /\ pull_socket = "bound"
    /\ pub_socket = "failed"
    /\ Len(pull_queue) = MaxPushed

\* The bind of the pull endpoint failed.
C14_PullBindFailed ==
    pull_socket = "failed" /\ broker_pc = "failed"

\* The query calls that have ended, returning or raising: their args, the rows
\* the collection held (none for a call that raised before line 52) and the
\* outcome.
EndedQueries ==
    { [args |-> Val(callers[t].args),
       ranking |-> IF IsNone(callers[t].ranking) THEN <<>> ELSE Val(callers[t].ranking),
       outcome |-> Val(callers[t].outcome)] :
        t \in {u \in DOMAIN callers : callers[u].pc \in {"returned", "raised"}} }

\* The threshold a caller asked for: args.threshold, 0.5 without one.
AskedThreshold(args) ==
    IF IsNone(args.threshold) THEN 5 ELSE Val(args.threshold)

\* The result cap a caller asked for: args.n_results, 2 without one.
AskedNResults(args) ==
    IF IsNone(args.n_results) THEN 2 ELSE Val(args.n_results)

\* C15: query returns exactly the documents, among the at most n_results
\* nearest rows, whose distance is strictly below the threshold (args.threshold,
\* 0.5 without one): a row at the threshold is left out and the set never has
\* more than n_results elements.
C15_QueryWithinThreshold ==
    \A call \in EndedQueries :
        LET cap == AskedNResults(call.args)
            nearest == {i \in DOMAIN call.ranking : i <= cap}
        IN /\ call.outcome.raised = ""
           /\ call.outcome.query_set =
                 {call.ranking[i].document :
                    i \in {n \in nearest :
                             call.ranking[n].distance < AskedThreshold(call.args)}}
           /\ Cardinality(call.outcome.query_set) <= cap

\* C16: query takes the result cap from args['n_results'] whenever args has
\* n_results and 2 otherwise, whether or not args has a threshold; a call that
\* gives only one of the two neither fails nor has its value ignored.
C16_NResultsFromArgs ==
    \A call \in EndedQueries :
        /\ call.outcome.raised = ""
        /\ call.outcome.n_results = Some(AskedNResults(call.args))

\* C17: with LOCAL_STORAGE_ROOT_PATH set the persistent store is opened under
\* <LOCAL_STORAGE_ROOT_PATH>/chroma_db, and under local_storage/chroma_db only
\* when it is unset.
C17_StoreUnderRootPath ==
    \A adapter \in DOMAIN chroma_client_path :
        chroma_client_path[adapter] =
            IF IsNone(local_storage_root_path[adapter])
            THEN <<"local_storage", "chroma_db">>
            ELSE Val(local_storage_root_path[adapter]) \o <<"chroma_db">>

\* C18: a submit_streaming call that has returned has sent one packet per
\* chunk of the response, in chunk order and with finish false, and after them
\* one last packet with finish true.
C18_TerminalFinishPacket ==
    stream_pc = "returned" =>
        /\ Len(stream_packets) = Len(stream_chunks) + 1
        /\ \A i \in DOMAIN stream_chunks :
              /\ stream_packets[i].packet = stream_chunks[i]
              /\ ~stream_packets[i].finish
        /\ stream_packets[Len(stream_packets)].finish

\* C21: join barrier A.  For each observation, as long as an index task of one of
\* its engrams has not returned successfully, no embedding task exists (so the
\* embedding plugin is not called for any of its engrams) and no INDEX_CREATED
\* or INDEX_COMPLETE is published for it; once embedding tasks exist there is
\* one index task per engram and every one of them has returned its index set.
C21_JoinBarrierA ==
    \A s \in Slots :
        LET all_indexed ==
                /\ DOMAIN index_tasks[s] = DOMAIN observations[s].engram_list
                /\ \A i \in DOMAIN index_tasks[s] :
                      /\ index_tasks[s][i].pc = "done"
                      /\ ~IsNone(index_tasks[s][i].result)
        IN ~all_indexed =>
              /\ embed_tasks[s] = <<>>
              /\ engram_task[s].pc # "embedding"
              /\ Published(s, "INDEX_CREATED") = <<>>
              /\ Published(s, "INDEX_COMPLETE") = <<>>

\* C21's case: the embedding plugin is being called for one engram of an
\* observation with two engrams while INDEX_COMPLETE is published for the other,
\* and another observation is held at the barrier by a failed index task.
C21_Witness ==
    \E s, f \in Slots :
        /\ Len(observations[s].engram_list) = 2
        /\ \E i, j \in DOMAIN embed_tasks[s] :
              embed_tasks[s][i].pc = "calling" /\ embed_tasks[s][j].pc = "done"
        /\ Len(Published(s, "INDEX_COMPLETE")) = 1
        /\ \E i \in DOMAIN index_tasks[f] : index_tasks[f][i].pc = "failed"
        /\ engram_task[f].pc = "failed"
        /\ embed_tasks[f] = <<>>

\* The positions of the messages of one topic among the messages of slot s.
Positions(s, topic) == {n \in DOMAIN sent[s] : sent[s][n].topic = topic}

\* C22: join barrier B and the order of events.  Every INDEX_COMPLETE of an
\* observation directly follows the INDEX_CREATED that names the ids of its
\* Index objects; at most one INDEX_COMPLETE is published per engram and as
\* many INDEX_CREATED as INDEX_COMPLETE; ENGRAM_COMPLETE is published after one
\* INDEX_CREATED and one INDEX_COMPLETE for every engram of the observation
\* and nothing of these follows it; ENGRAM_CREATED precedes them all.
C22_EventOrder ==
    \A s \in Slots :
        LET created == Positions(s, "INDEX_CREATED")
            index_complete == Positions(s, "INDEX_COMPLETE")
            engram_complete == Positions(s, "ENGRAM_COMPLETE")
            engram_list == observations[s].engram_list
        IN /\ \A n \in index_complete :
                /\ n - 1 \in created
                /\ sent[s][n - 1].index_id_array
                      = [j \in DOMAIN sent[s][n].index |-> IndexId(sent[s][n].engram_id, j)]
                /\ \E i \in DOMAIN engram_list : engram_list[i].id = sent[s][n].engram_id
           /\ \A n \in created : n + 1 \in index_complete
           /\ \A n, k \in index_complete :
                sent[s][n].engram_id = sent[s][k].engram_id => n = k
           /\ \A n \in engram_complete :
                /\ \A i \in DOMAIN engram_list :
                      \E k \in index_complete :
                          k < n /\ sent[s][k].engram_id = engram_list[i].id
                /\ Cardinality(created) = Len(engram_list)
                /\ Cardinality(index_complete) = Len(engram_list)
                /\ \A k \in created \cup index_complete : k < n
           /\ \A n \in created \cup index_complete \cup engram_complete :
                \E k \in Positions(s, "ENGRAM_CREATED") : k < n

\* C22's case: ENGRAM_COMPLETE was published for two engrams, the INDEX_COMPLETE
\* of the second engram having been published before that of the first.
C22_Witness ==
    \E s \in Slots :
        /\ Len(Published(s, "ENGRAM_COMPLETE")) = 1
        /\ Len(observations[s].engram_list) = 2
        /\ Len(Published(s, "INDEX_COMPLETE")) = 2
        /\ Published(s, "INDEX_COMPLETE")[1].engram_id = observations[s].engram_list[2].id

\* The engram at position i of slot s has reached the state EMBEDDED: its index
\* task returned its index texts and its embedding task attached the Index
\* objects built from them.
Embedded(s, i) ==
    /\ i \in DOMAIN index_tasks[s]
    /\ index_tasks[s][i].pc = "done"
    /\ i \in DOMAIN embed_tasks[s]
    /\ embed_tasks[s][i].pc = "done"

\* The indices the embedding task of position i of slot s attached.
AttachedIndices(s, i) ==
    Some(BuildIndexArray(Val(index_tasks[s][i].result).indices,
                         Val(embed_tasks[s][i].reply).embeddings_list))

\* C23: an engram goes REGISTERED, INDEXED, EMBEDDED, EMITTED, EVICTED in that
\* order.  Index tasks exist only for registered engrams, which stay in
\* engram_builder while their observation is in flight; an engram of
\* engram_builder has indices only once its index texts were generated and its
\* embedding task attached them, and attached indices are not changed again;
\* an engram of an ENGRAM_COMPLETE payload is EMBEDDED and carries the attached
\* indices, each with its embedding; and an engram leaves engram_builder only
\* in a step that publishes it, with its indices, in ENGRAM_COMPLETE.
C23_EngramLifecycle ==
    /\ [](\A s \in Slots :
            /\ engram_task[s].pc \in {"indexing", "embedding"} =>
                  \A i \in DOMAIN observations[s].engram_list :
                      /\ i \in DOMAIN index_tasks[s]
                      /\ observations[s].engram_list[i].id \in DOMAIN engram_builder
            /\ \A i \in DOMAIN index_tasks[s] :
                  ~Embedded(s, i) /\ engram_task[s].pc \in {"indexing", "embedding"} =>
                      IsNone(engram_builder[observations[s].engram_list[i].id].indices)
            /\ \A k \in DOMAIN Published(s, "ENGRAM_COMPLETE") :
                  \A i \in DOMAIN Published(s, "ENGRAM_COMPLETE")[k].engram_array :
                      LET engram == Published(s, "ENGRAM_COMPLETE")[k].engram_array[i]
                      IN /\ Embedded(s, i)
                         /\ engram.indices = AttachedIndices(s, i)
                         /\ \A j \in DOMAIN Val(engram.indices) :
                               ~IsNone(Val(engram.indices)[j].embedding))
    /\ [](\A id \in DOMAIN engram_builder :
            ~IsNone(engram_builder[id].indices) =>
                \E s \in Slots : \E i \in DOMAIN observations[s].engram_list :
                    /\ observations[s].engram_list[i].id = id
                    /\ Embedded(s, i)
                    /\ engram_builder[id].indices = AttachedIndices(s, i))
    /\ [][\A id \in DOMAIN engram_builder :
            /\ (id \in DOMAIN engram_builder' /\ ~IsNone(engram_builder[id].indices))
                  => engram_builder'[id] = engram_builder[id]
            /\ id \notin DOMAIN engram_builder' =>
                  \E s \in Slots :
                      /\ Published(s, "ENGRAM_COMPLETE") = <<>>
                      /\ Len(Published(s, "ENGRAM_COMPLETE")') = 1
                      /\ \E i \in DOMAIN Published(s, "ENGRAM_COMPLETE")'[1].engram_array :
                            /\ Published(s, "ENGRAM_COMPLETE")'[1].engram_array[i]
                                  = engram_builder[id]
                            /\ ~IsNone(engram_builder[id].indices)]_vars

\* C23's case: the two engrams of one observation were emitted and evicted while
\* an engram of another observation is EMBEDDED, still in engram_builder and not
\* yet emitted.
C23_Witness ==
    \E a, b \in Slots :
        /\ Len(observations[a].engram_list) = 2
        /\ Len(Published(a, "ENGRAM_COMPLETE")) = 1
        /\ \A i \in 1..2 : observations[a].engram_list[i].id \notin DOMAIN engram_builder
        /\ engram_task[b].pc = "embedding"
        /\ Embedded(b, 1)
        /\ ~IsNone(engram_builder[observations[b].engram_list[1].id].indices)

\* The observation of slot s has registered its engrams and not yet ended.
InFlight(s) == engram_task[s].pc \in {"indexing", "embedding"}

\* C24: an engram id is held in engram_builder by at most one engram of one
\* observation in flight, under its own id as key; and the step that publishes
\* ENGRAM_COMPLETE for an observation removes every engram id of that
\* observation, so that after that step none of them is a key of the map.
C24_RemovedOnEngramComplete ==
    /\ [](/\ \A id \in DOMAIN engram_builder : engram_builder[id].id = id
          /\ \A a, b \in Slots :
                (InFlight(a) /\ InFlight(b)) =>
                    \A i \in DOMAIN observations[a].engram_list :
                    \A j \in DOMAIN observations[b].engram_list :
                        observations[a].engram_list[i].id = observations[b].engram_list[j].id
                            => (a = b /\ i = j))
    /\ [][\A s \in Slots :
            Published(s, "ENGRAM_COMPLETE")' # Published(s, "ENGRAM_COMPLETE") =>
                \A i \in DOMAIN observations[s].engram_list :
                    /\ observations[s].engram_list[i].id \in DOMAIN engram_builder
                    /\ observations[s].engram_list[i].id \notin DOMAIN engram_builder']_vars

\* C24's case: ENGRAM_COMPLETE was published for an observation with two engrams,
\* neither of which is a key of engram_builder any more, while the map still
\* holds the engram of another observation that is generating its indices.
C24_Witness ==
    \E a, b \in Slots :
        /\ Len(observations[a].engram_list) = 2
        /\ Len(Published(a, "ENGRAM_COMPLETE")) = 1
        /\ \A i \in 1..2 : observations[a].engram_list[i].id \notin DOMAIN engram_builder
        /\ engram_task[b].pc = "indexing"
        /\ \E i \in DOMAIN observations[b].engram_list :
              observations[b].engram_list[i].id \in DOMAIN engram_builder

\* C25: once the service has been stopped after an observation failed in the
\* engram branch, engram_builder is empty.
C25_BuilderEmptyAfterStop ==
    (service_stopped /\ \E s \in Slots : engram_task[s].pc = "failed")
        => DOMAIN engram_builder = {}

\* C26: when an engram of an observation has no context, its index task never
\* returns an index set: once the language model call for it has returned the
\* task fails with 'None context found in engram.' (it fails with the plugin's
\* own exception when that call raises); the join of the index tasks then
\* fails, no embedding task is created, and neither INDEX_CREATED,
\* INDEX_COMPLETE nor ENGRAM_COMPLETE is published for the observation,
\* whatever the other engrams of the observation are.
C26_NoneContextIsFatal ==
    \A s \in Slots : \A i \in DOMAIN index_tasks[s] :
        IsNone(observations[s].engram_list[i].context) =>
            /\ index_tasks[s][i].pc \in {"ready", "calling", "failed"}
            /\ (index_tasks[s][i].pc = "failed" /\ ~Val(index_tasks[s][i].reply).raised)
                  => index_tasks[s][i].error = "None context found in engram."
            /\ engram_task[s].pc \in {"indexing", "failed"}
            /\ (engram_task[s].pc = "failed" => engram_task[s].error = "index task raised")
            /\ (JoinComplete(index_tasks[s]) /\ engram_task[s].pc = "indexing")
                  => ENABLED on_indices_done(s)
            /\ embed_tasks[s] = <<>>
            /\ Published(s, "INDEX_CREATED") = <<>>
            /\ Published(s, "INDEX_COMPLETE") = <<>>
            /\ Published(s, "ENGRAM_COMPLETE") = <<>>

\* C26's case: of the two engrams of an observation the one with a context got
\* its index set, the one without failed with 'None context found in engram.',
\* and the join has failed.
C26_Witness ==
    \E s \in Slots : \E i, j \in DOMAIN index_tasks[s] :
        /\ index_tasks[s][i].pc = "done"
        /\ IsNone(observations[s].engram_list[j].context)
        /\ index_tasks[s][j].pc = "failed"
        /\ index_tasks[s][j].error = "None context found in engram."
        /\ engram_task[s].pc = "failed"

\* The embedding plugin returned more vectors than index texts to embedding task
\* i of slot s, so that building the Index objects raised IndexError.
IndexBuildFailed(s, i) ==
    /\ ~IsNone(embed_tasks[s][i].reply)
    /\ ~Val(embed_tasks[s][i].reply).raised
    /\ Len(Val(embed_tasks[s][i].reply).embeddings_list)
          > Len(Val(embed_tasks[s][i].arg).id_and_index_dict.indices)

\* C27: when building the Index objects of an engram fails in _gen_embeddings,
\* the embedding task fails, no INDEX_COMPLETE is published for the engram, no
\* ENGRAM_COMPLETE is published for the observation, and the Index objects
\* built before the failure are not attached to the engram.
C27_FailedBuildAborts ==
    \A s \in Slots : \A i \in DOMAIN embed_tasks[s] :
        IndexBuildFailed(s, i) =>
            LET engram_id == Val(embed_tasks[s][i].arg).id_and_index_dict.id
            IN /\ embed_tasks[s][i].pc = "failed"
               /\ \A n \in Positions(s, "INDEX_COMPLETE") : sent[s][n].engram_id # engram_id
               /\ Published(s, "ENGRAM_COMPLETE") = <<>>
               /\ engram_id \in DOMAIN engram_builder
                     => IsNone(engram_builder[engram_id].indices)

\* The plugin call of a task raised.
PluginRaised(task) == ~IsNone(task.reply) /\ Val(task.reply).raised

\* A task makes its plugin call at most once: it leaves ready only for calling
\* (or fails before the call), never returns to ready or to calling, and does
\* not change once it has finished.
CallsOnce(task, task_next) ==
    /\ task_next.pc = "ready" => task.pc = "ready"
    /\ task_next.pc = "calling" => task.pc \in {"ready", "calling"}
    /\ Finished(task) => task_next = task

\* C28: for one observation there is at most one language model call per engram
\* and at most one embedding call per engram plus one for the summary: the
\* index task and the embedding task at position i are those of the engram at
\* position i, the tasks of an observation are created once, and each task
\* makes its plugin call at most once.  A plugin call that raised fails its
\* task, which is not run again, and with it its branch: no META_COMPLETE
\* after a failed summary call, no embedding task after a failed language
\* model call, no ENGRAM_COMPLETE after either a failed language model call or
\* a failed embedding call.
C28_NoRetry ==
    /\ [](\A s \in Slots :
            /\ Len(index_tasks[s]) <= Len(observations[s].engram_list)
            /\ Len(embed_tasks[s]) <= Len(observations[s].engram_list)
            /\ \A i \in DOMAIN index_tasks[s] :
                  /\ Val(index_tasks[s][i].arg).engram = observations[s].engram_list[i]
                  /\ PluginRaised(index_tasks[s][i]) =>
                        /\ index_tasks[s][i].pc = "failed"
                        /\ embed_tasks[s] = <<>>
                        /\ engram_task[s].pc \in {"indexing", "failed"}
                        /\ Published(s, "ENGRAM_COMPLETE") = <<>>
            /\ \A i \in DOMAIN embed_tasks[s] :
                  /\ Val(embed_tasks[s][i].arg).id_and_index_dict.id
                        = observations[s].engram_list[i].id
                  /\ PluginRaised(embed_tasks[s][i]) =>
                        /\ embed_tasks[s][i].pc = "failed"
                        /\ engram_task[s].pc \in {"embedding", "failed"}
                        /\ Published(s, "ENGRAM_COMPLETE") = <<>>
            /\ PluginRaised(summary_task[s]) =>
                  /\ summary_task[s].pc = "failed"
                  /\ Published(s, "META_COMPLETE") = <<>>)
    /\ [][\A s \in Slots :
            /\ CallsOnce(summary_task[s], summary_task'[s])
            /\ index_tasks[s] # <<>> => DOMAIN index_tasks'[s] = DOMAIN index_tasks[s]
            /\ embed_tasks[s] # <<>> => DOMAIN embed_tasks'[s] = DOMAIN embed_tasks[s]
            /\ \A i \in DOMAIN index_tasks[s] :
                  CallsOnce(index_tasks[s][i], index_tasks'[s][i])
            /\ \A i \in DOMAIN embed_tasks[s] :
                  CallsOnce(embed_tasks[s][i], embed_tasks'[s][i])
            /\ Ended(s) => engram_task'[s] = engram_task[s]]_vars

\* C28's case: the summary call of one observation raised; of the two language
\* model calls of another observation one raised and the other returned, and
\* its engram branch has failed.
C28_Witness ==
    \E a, b \in Slots :
        /\ PluginRaised(summary_task[a])
        /\ \E i, j \in DOMAIN index_tasks[b] :
              /\ PluginRaised(index_tasks[b][i])
              /\ index_tasks[b][j].pc = "done"
        /\ engram_task[b].pc = "failed"

\* An embedding call raised and the engram branch has failed on it.
C28_EmbeddingRaised ==
    \E s \in Slots : \E i \in DOMAIN embed_tasks[s] :
        PluginRaised(embed_tasks[s][i]) /\ engram_task[s].pc = "failed"

\* The threads that are inside collection.query or collection.add.
InCollection == {t \in DOMAIN callers : callers[t].pc = "collection"}

\* C29: at most one thread at a time is inside the collection's query or add,
\* whichever adapter instance it called.
C29_OneInCollection == Cardinality(InCollection) <= 1

\* What the lock does ensure: no two threads are inside the collection through
\* the same adapter instance.
C29_OneInCollectionPerInstance ==
    \A t, u \in InCollection : callers[t].adapter = callers[u].adapter => t = u

\* C30: within one observation no two plugin calls of the service are given the
\* same mock-record key (plugin, call_index, source_id).
C30_DistinctMockKeys ==
    \A s \in Slots : \A c, d \in PluginCalls(s) : c.key = d.key => c.call = d.call

\* What does hold: the calls of the index tasks of one observation have keys
\* different from each other and from those of the embedding calls, and so
\* have the calls of its embedding tasks among themselves.
C30_DistinctPerEngramKeys ==
    \A s \in Slots : \A c, d \in PluginCalls(s) :
        (c.call[1] # "_generate_summary_embeddings"
            /\ d.call[1] # "_generate_summary_embeddings"
            /\ c.key = d.key) => c.call = d.call

\* Two engrams of the list have equal ids.
DuplicateInside(engram_list) ==
    \E i, j \in DOMAIN engram_list : i # j /\ engram_list[i].id = engram_list[j].id

\* An engram id of slot s belongs to another observation that is in flight.
HeldByInFlight(s) ==
    \E a \in Slots \ {s} :
        /\ InFlight(a)
        /\ \E i \in DOMAIN observations[s].engram_list :
           \E j \in DOMAIN observations[a].engram_list :
               observations[s].engram_list[i].id = observations[a].engram_list[j].id

\* C31: whenever on_engrams is about to reject an observation with 'Engram ID
\* Collision' (it is due to run and one of the engram ids is duplicated in the
\* list or is a key of engram_builder), an id is duplicated inside the
\* observation or belongs to another observation that is still in flight; ids
\* left behind by a failed observation reject nothing.
C31_CollisionOnlyFromInFlight ==
    \A s \in Slots :
        (engram_task[s].pc = "generated"
            /\ IdCollision(observations[s].engram_list, engram_builder))
        => (DuplicateInside(observations[s].engram_list) \/ HeldByInFlight(s))

\* C32: an observation with an empty engram_list publishes ENGRAM_CREATED once,
\* with an empty engram_id_array, creates no index or embedding task and never
\* publishes ENGRAM_COMPLETE: its engram branch ends only by failing, with
\* KeyError when the empty join holds no group key and with IndexError (in
\* on_embeddings_done) when it holds an empty list; none of its steps changes
\* engram_builder.
C32_EmptyEngramList ==
    /\ [](\A s \in Slots :
            observations[s].engram_list = <<>> =>
                /\ Published(s, "ENGRAM_COMPLETE") = <<>>
                /\ Published(s, "INDEX_CREATED") = <<>>
                /\ Published(s, "INDEX_COMPLETE") = <<>>
                /\ index_tasks[s] = <<>>
                /\ embed_tasks[s] = <<>>
                /\ engram_task[s].pc \in {"ready", "generated", "indexing", "embedding", "failed"}
                /\ engram_task[s].pc = "failed" => engram_task[s].error \in {"KeyError", "IndexError"}
                /\ engram_task[s].pc \in {"ready", "generated"} =>
                      Published(s, "ENGRAM_CREATED") = <<>>
                /\ engram_task[s].pc \notin {"ready", "generated"} =>
                      Published(s, "ENGRAM_CREATED")
                          = <<[topic |-> "ENGRAM_CREATED",
                               source_id |-> observations[s].source_id,
                               engram_id_array |-> <<>>]>>)
    /\ [][\A s \in Slots :
            (observations[s].engram_list = <<>> /\ engram_task'[s] # engram_task[s])
                => engram_builder' = engram_builder]_vars

\* C32's case: of two observations with an empty engram_list one failed because
\* the empty join had no group key and the other because its list was empty,
\* each after its ENGRAM_CREATED.
C32_Witness ==
    \E a, b \in Slots :
        /\ observations[a].engram_list = <<>>
        /\ observations[b].engram_list = <<>>
        /\ engram_task[a].pc = "failed" /\ engram_task[a].error = "KeyError"
        /\ engram_task[b].pc = "failed" /\ engram_task[b].error = "IndexError"
        /\ Len(Published(a, "ENGRAM_CREATED")) = 1
        /\ Len(Published(b, "ENGRAM_CREATED")) = 1

\* A step of the forwarding loop.
LoopStep ==
    listen_test \/ listen_deliver \/ listen_recv \/ listen_recv_closed \/ listen_send

\* The places of a loop that has been started and has not ended.
Running == {"scheduled", "test", "recv", "delivered", "send"}

\* C33: once recieved_stop_message is set, the forwarding loop, as long as it has
\* not ended, can take its next step without a further message being pushed;
\* it forwards no message that was pushed after the flag was set; and no
\* message is received from the pull socket or sent on the pub socket after
\* stop() has closed it.
C33_StopFlagEndsLoop ==
    /\ []((recieved_stop_message /\ broker_pc \in Running) => ENABLED LoopStep)
    /\ [][(recieved_stop_message /\ pub_sent' # pub_sent)
            => Len(Received) <= Val(pushed_at_stop)]_vars
    /\ [][/\ Received' # Received => pull_socket = "bound"
          /\ pub_sent' # pub_sent => pub_socket = "bound"]_vars

\* What does hold: no message is taken from the pull socket or sent on the pub
\* socket after stop() has closed it, and after stop() a loop that has not
\* ended can take a step without a further message.
C33_NothingSentAfterClose ==
    /\ [][/\ (broker_pc' = "delivered" /\ broker_pc # "delivered")
                => pull_socket = "bound"
          /\ pub_sent' # pub_sent => pub_socket = "bound"]_vars
    /\ []((pull_socket = "closed" /\ broker_pc \in Running) => ENABLED LoopStep)

\* The loop has resumed, after stop() closed the sockets, with a message handed
\* to it before, and has counted it as received.
C33_ReceivedAfterClose ==
    /\ broker_pc = "send"
    /\ pull_socket = "closed"
    /\ pub_socket = "closed"

\* A message pushed after the flag was set has been received and forwarded.
C33_LateMessageForwarded ==
    /\ recieved_stop_message
    /\ broker_pc = "test"
    /\ Len(Received) > Val(pushed_at_stop)
    /\ Len(Received[Len(Received)]) = 2
    /\ pub_sent # <<>>
    /\ pub_sent[Len(pub_sent)] = Received[Len(Received)]

\* The positions of the engrams of the call's input whose two scores both lie
\* strictly above the filters.
PassedPositions ==
    LET args == Val(merge_args)
    IN  {i \in DOMAIN args.observation.engram_list :
            /\ args.observation.engram_list[i].accuracy > args.accuracy_filter
            /\ args.observation.engram_list[i].relevancy > args.relevancy_filter}

\* The k-th smallest position of PassedPositions.
NthPassed(k) ==
    CHOOSE i \in PassedPositions : Cardinality({j \in PassedPositions : j <= i}) = k

\* C34: the observation merge_observation returns holds exactly the engrams
\* of the input whose accuracy is strictly greater than accuracy_filter and
\* whose relevancy is strictly greater than relevancy_filter, in their original
\* relative order; an engram one of whose scores equals its filter is not in
\* it; and the call leaves the observation it was passed as it was.
C34_StrictFilter ==
    /\ [](merge_pc = "returned" =>
            LET args == Val(merge_args)
                input == args.observation.engram_list
                kept == Val(merged_observation).engram_list
            IN  /\ Len(kept) = Cardinality(PassedPositions)
                /\ \A k \in DOMAIN kept : kept[k] = input[NthPassed(k)]
                /\ \A i \in DOMAIN input :
                      (input[i].accuracy = args.accuracy_filter
                         \/ input[i].relevancy = args.relevancy_filter)
                      => \A k \in DOMAIN kept : kept[k].id # input[i].id)
    /\ [][~IsNone(merge_args) => merge_args' = merge_args]_vars

\* A call has returned whose first engram has an accuracy equal to the filter
\* and a relevancy above its filter, and whose second engram passed both
\* filters: only the second one is in the result.
C34_Witness ==
    /\ merge_pc = "returned"
    /\ LET args == Val(merge_args)
           input == args.observation.engram_list
       IN  /\ Len(input) = 2
           /\ input[1].accuracy = args.accuracy_filter
           /\ input[1].relevancy > args.relevancy_filter
           /\ input[2].accuracy > args.accuracy_filter
           /\ input[2].relevancy > args.relevancy_filter
           /\ Val(merged_observation).engram_list = <<input[2]>>

\* The ids the input of the call carries.
InputIds ==
    LET observation == Val(merge_args).observation
    IN  {observation.id, observation.meta.id}
            \cup {observation.engram_list[i].id : i \in DOMAIN observation.engram_list}

\* seq has no element twice.
DuplicateFree(seq) == \A i, j \in DOMAIN seq : seq[i] = seq[j] => i = j

\* C35: the meta of the observation merge_observation returns has as
\* source_ids the duplicate-free union of the source_ids of the engrams that
\* passed the filters and as locations the duplicate-free union of their
\* locations, keeps the keywords, summary_initial and summary_full of the input
\* meta, and has an id that no object of the input has and that differs from
\* the id of the returned observation.
C35_MergedMeta ==
    merge_pc = "returned" =>
        LET args == Val(merge_args)
            input == args.observation
            meta == Val(merged_observation).meta
        IN  /\ Range(meta.source_ids)
                 = UNION {Range(input.engram_list[i].source_ids) : i \in PassedPositions}
            /\ DuplicateFree(meta.source_ids)
            /\ Range(meta.locations)
                 = UNION {Range(input.engram_list[i].locations) : i \in PassedPositions}
            /\ DuplicateFree(meta.locations)
            /\ meta.keywords = input.meta.keywords
            /\ meta.summary_initial = input.meta.summary_initial
            /\ meta.summary_full = input.meta.summary_full
            /\ meta.id \notin InputIds
            /\ meta.id # Val(merged_observation).id

\* What the code does hold to: the two merged lists are duplicate-free unions
\* and the rest of the meta is kept, with source_ids and locations exchanged.
C35_ListsExchanged ==
    merge_pc = "returned" =>
        LET args == Val(merge_args)
            input == args.observation
            meta == Val(merged_observation).meta
        IN  /\ Range(meta.locations)
                 = UNION {Range(input.engram_list[i].source_ids) : i \in PassedPositions}
            /\ Range(meta.source_ids)
                 = UNION {Range(input.engram_list[i].locations) : i \in PassedPositions}
            /\ DuplicateFree(meta.source_ids)
            /\ DuplicateFree(meta.locations)
            /\ meta.keywords = input.meta.keywords
            /\ meta.summary_initial = input.meta.summary_initial
            /\ meta.summary_full = input.meta.summary_full
            /\ meta.id \notin InputIds
            /\ meta.id # Val(merged_observation).id

\* A call on an observation whose meta has no summary_full has raised.
C35_RaisedWithoutSummary ==
    /\ merge_pc = "raised"
    /\ merge_error = "TypeError"
    /\ IsNone(Val(merge_args).observation.meta.summary_full)

====
